---- MODULE Spec2Model ----
(***************************************************************************)
(* Multi-stage report generation of gemmanotebook:                         *)
(*   MultiTurnReportGenerator (src/src/agents/MultiTurnReportGenerator.ts) *)
(*   BaseAgent, ContentWriter  (src/src/agents/BaseAgent.ts)               *)
(*   ReferenceProcessor        (src/unnamed/part_010)                      *)
(*                                                                         *)
(* A JavaScript string is a sequence of UTF-16 code units (integers), so   *)
(* that length, substring search, trimming and the Hangul test are         *)
(* computed as the code computes them.                                     *)
(***************************************************************************)
EXTENDS Integers, Sequences, FiniteSets, TLC

VARIABLES
  instruction,   \* generateKoreanReport / shouldUseMultiTurn argument
  referenceText, \* generateKoreanReport / shouldUseMultiTurn argument
  gate,          \* "true" or "false" as shouldUseMultiTurn returned, "unset" before the call
  pc,            \* position of generateKoreanReport
  gpc,           \* position of generateWithRetry: "none", "awaiting", "delay"
  caller,        \* who invoked generateWithRetry: "extract", "outline", "section"
  retryI,        \* loop variable i of generateWithRetry
  lastError,     \* lastError of generateWithRetry
  attempts,      \* the service calls of the current invocation and their outcomes
  genOut,        \* what the last finished invocation returned or threw
  inflight,      \* service calls issued and not yet settled
  calls,         \* service calls issued since the run started
  reply,         \* settled outcome of the last service call, not yet consumed
  failures,      \* service failures so far in this run
  chunks,        \* chunks of processReference
  chunkIdx,      \* loop variable i of processReference (0-based)
  allFacts,      \* allFacts of processReference
  chunkLog,      \* per processed chunk: did extraction fail, and the facts parsed
  keyFacts,      \* keyFacts of generateKoreanReport
  outline,       \* outline of generateKoreanReport
  secIdx,        \* loop variable i of the section loop (0-based)
  sections,      \* sections of generateKoreanReport
  events,        \* progress events handed to onProgress, in order
  result,        \* outcome of generateKoreanReport: none, value or throw
  cText,         \* chunkText argument text
  cMaxSize,      \* chunkText argument maxSize
  cOverlap,      \* chunkText argument overlap
  cStart,        \* start of chunkText
  cChunks,       \* chunks of chunkText
  cSpans,        \* per element of cChunks, the <<from, to>> it was cut at (0-based, to exclusive)
  cPc,           \* position of chunkText: "idle", "loop" or "done"
  dFacts,        \* deduplicateAndRankFacts argument facts
  dOut,          \* what deduplicateAndRankFacts returned
  aTitle,        \* combineIntoFinalReport argument title
  aSections,     \* combineIntoFinalReport argument sections
  aDoc,          \* what combineIntoFinalReport returned
  wTitle,        \* writeSection argument sectionTitle
  wFacts,        \* writeSection argument relevantFacts
  wOut,          \* outcome of writeSection: none, return or throw
  pFacts,        \* generateKoreanReportOutline argument keyFacts
  pOut,          \* outcome of generateKoreanReportOutline: none, pending, return or throw
  uCall,         \* the synchronous method called on its own: its name and arguments
  uRet,          \* what that method returned
  cancelRequested, \* the host has asked for the run to be cancelled
  editorBlocks,  \* the texts editor.addBlock was called with, in order
  insertSections, \* sections of insertReportIntoEditor
  hostPc,        \* position of handleMultiTurnGeneration: "awaiting", "inserting",
                 \* "succeeded" or "failed"
  isProcessing,  \* ChatInterface.isProcessing
  chatPc,        \* position of sendMessage: "idle", "multi" (handleMultiTurnGeneration),
                 \* "single" (streamAIContentIntoEditor), "chat" (generateStreamFromChat)
                 \* or "done"
  paths,         \* the generation paths started, in order: "multi", "single", "chat"
  dropped        \* calls of sendMessage that returned because isProcessing was set

vars == <<instruction, referenceText, gate, pc, gpc, caller, retryI, lastError, attempts, genOut,
          inflight, calls, reply, failures, chunks, chunkIdx, allFacts, chunkLog,
          keyFacts, outline, secIdx, sections, events, result,
          cText, cMaxSize, cOverlap, cStart, cChunks, cSpans, cPc,
          dFacts, dOut, aTitle, aSections, aDoc, wTitle, wFacts, wOut,
          pFacts, pOut, uCall, uRet, cancelRequested, editorBlocks,
          insertSections, hostPc, isProcessing, chatPc, paths, dropped>>

\* the arguments, locals and results of the functions called on their own
writeVars == <<wTitle, wFacts, wOut, pFacts, pOut>>
pureVars == <<cText, cMaxSize, cOverlap, cStart, cChunks, cSpans, cPc, dFacts, dOut,
              aTitle, aSections, aDoc, uCall, uRet>>
unitVars == <<pureVars, writeVars>>

\* the state of the host around a run
chatVars == <<isProcessing, chatPc, paths, dropped>>
hostVars == <<cancelRequested, editorBlocks, insertSections, hostPc, chatVars>>

pipeVars == <<pc, gpc, caller, retryI, lastError, attempts, genOut, inflight, calls,
              reply,
              failures, chunks, chunkIdx, allFacts, chunkLog, keyFacts, outline,
              secIdx, sections, events, result>>

----------------------------------------------------------------------------
(* Bounds of the model *)

\* longest instruction enumerated over the small alphabet
MaxInstrLen == 3
\* longest section list handed to combineIntoFinalReport on its own
MaxSections == 3
\* longest fact list enumerated over the fact pool
MaxFactList == 3
\* longest text and largest maxSize of the exhaustive chunkText inputs
MaxTextLen == 4
MaxChunkSize == 3
\* iterations of chunkText's loop that are followed in one call
MaxIterations == 8
\* most lines of an enumerated outline response
MaxOutlineLines == 3
\* longest subject of the exhaustive areFactsSimilar inputs
MaxSubjectLen == 2
\* most messages submitted while another one is being processed
MaxDropped == 1
\* the longest plain reference text spans this many chunk windows
MaxWindows == 2
\* the service fails at most this many times in one run
MaxFailures == 3

----------------------------------------------------------------------------
(* JavaScript string primitives *)

Rep(c, n) == [k \in 1..n |-> c]

Max2(a, b) == IF a >= b THEN a ELSE b
Min2(a, b) == IF a <= b THEN a ELSE b

\* a substring that runs to the end of the string whatever `to` is
substringToEnd(s, from, to) == SubSeq(s, Max2(0, Min2(from, Len(s))) + 1, Len(s))

\* String.prototype.substring(from, to) (0-based, to exclusive): an argument below 0
\* counts as 0, one above the length as the length, and the smaller one comes first
substring(s, from, to) ==
  LET a == Max2(0, Min2(Min2(from, to), Len(s)))
      b == Max2(0, Min2(Max2(from, to), Len(s)))
  IN  SubSeq(s, a + 1, b)

\* String.prototype.includes
includes(s, sub) ==
  \E k \in 0..(Len(s) - Len(sub)) : SubSeq(s, k + 1, k + Len(sub)) = sub

\* String.prototype.lastIndexOf for a single character: 0-based index or -1
lastIndexOf(s, c) ==
  LET hits == {k \in 1..Len(s) : s[k] = c}
  IN  IF hits = {} THEN -1
      ELSE (CHOOSE k \in hits : \A m \in hits : m <= k) - 1

\* WhiteSpace and LineTerminator code units, as String.prototype.trim and \s see them
IsSpace(c) ==
  \/ c \in {9, 10, 11, 12, 13, 32, 160, 5760, 8232, 8233, 8239, 8287, 12288, 65279}
  \/ (c >= 8192 /\ c <= 8202)

\* String.prototype.trim
trim(s) ==
  IF \A k \in 1..Len(s) : IsSpace(s[k]) THEN <<>>
  ELSE SubSeq(s,
              CHOOSE k \in 1..Len(s) :
                ~IsSpace(s[k]) /\ \A m \in 1..(k - 1) : IsSpace(s[m]),
              CHOOSE k \in 1..Len(s) :
                ~IsSpace(s[k]) /\ \A m \in (k + 1)..Len(s) : IsSpace(s[m]))

\* /[\u1100-\u11FF\u3130-\u318F\uA960-\uA97F\uAC00-\uD7AF\uD7B0-\uD7FF]/
IsHangul(c) ==
  \/ (c >= 4352 /\ c <= 4607)
  \/ (c >= 12592 /\ c <= 12687)
  \/ (c >= 43360 /\ c <= 43391)
  \/ (c >= 44032 /\ c <= 55215)
  \/ (c >= 55216 /\ c <= 55295)

containsKorean(text) == \E k \in 1..Len(text) : IsHangul(text[k])

----------------------------------------------------------------------------
(* The activation gate *)

\* the keywords U+B9AC U+D3EC U+D2B8 (report), U+BCF4 U+ACE0 U+C11C (report),
\* U+CD08 U+C548 (draft), U+C791 U+C131 (write)
KwReport == <<47532, 54252, 53944>>
KwBogoseo == <<48372, 44256, 49436>>
KwDraft == <<52488, 50504>>
KwWrite == <<51089, 49457>>

isReportRequest(instr) ==
  \/ includes(instr, KwReport)
  \/ includes(instr, KwBogoseo)
  \/ includes(instr, KwDraft)
  \/ includes(instr, KwWrite)

\* referenceText.length > 800
hasLargeReferenceOff(ref) == Len(ref) >= 800
hasLargeReference(ref) == Len(ref) > 800

hasReference(ref) == Len(trim(ref)) > 0

shouldUseMultiTurn(instr, ref) ==
  /\ containsKorean(instr)
  /\ isReportRequest(instr)
  /\ hasLargeReference(ref)
  /\ hasReference(ref)

----------------------------------------------------------------------------
(* Regular-expression primitives *)

MinOf(S) == CHOOSE k \in S : \A m \in S : k <= m
MaxOf(S) == CHOOSE k \in S : \A m \in S : m <= k

\* case folding of the ASCII letters
lowerChar(c) == IF c >= 65 /\ c <= 90 THEN c + 32 ELSE c

\* String.prototype.toLowerCase
toLowerCase(s) == [k \in 1..Len(s) |-> lowerChar(s[k])]

\* \d
IsDigit(c) == c >= 48 /\ c <= 57

\* what . does not match
IsLineTerminator(c) == c \in {10, 13, 8232, 8233}

\* the literal pat (lower case) matches s at index k (1-based) under the i flag
matchesAtCI(s, k, pat) ==
  /\ k + Len(pat) - 1 <= Len(s)
  /\ \A j \in 1..Len(pat) : lowerChar(s[k + j - 1]) = pat[j]

\* the literal pat matches s at index k (1-based)
matchesAt(s, k, pat) ==
  /\ k + Len(pat) - 1 <= Len(s)
  /\ \A j \in 1..Len(pat) : s[k + j - 1] = pat[j]

\* \d+, \s* and .+ from index k: the first index >= k that is past the end of s or
\* holds no character of the class
digitsEnd(s, k) ==
  MinOf({j \in k..(Len(s) + 1) : j = Len(s) + 1 \/ ~IsDigit(s[j])})

spacesEnd(s, k) ==
  MinOf({j \in k..(Len(s) + 1) : j = Len(s) + 1 \/ ~IsSpace(s[j])})

lineEnd(s, k) ==
  MinOf({j \in k..(Len(s) + 1) : j = Len(s) + 1 \/ IsLineTerminator(s[j])})

----------------------------------------------------------------------------
(* BaseAgent.chunkText *)

\* a test that measures the 70% from the start of the window
pastSeventyPercentOfWindow(breakPoint, start, maxSize) ==
  10 * breakPoint > 7 * maxSize

\* breakPoint > start + maxSize * 0.7, in tenths
pastSeventyPercent(breakPoint, start, maxSize) ==
  10 * breakPoint > 10 * start + 7 * maxSize

\* the while loop, from window start `start` with `acc` the chunks pushed so far
RECURSIVE chunkLoop(_, _, _, _, _)
chunkLoop(text, maxSize, overlap, start, acc) ==
  IF ~(start < Len(text)) THEN acc
  ELSE
    LET end == Min2(start + maxSize, Len(text))
        chunk == substring(text, start, end)
    IN  IF end < Len(text)
        THEN LET breakPoint == Max2(lastIndexOf(chunk, 46), lastIndexOf(chunk, 10))
             IN  IF pastSeventyPercent(breakPoint, start, maxSize)
                 THEN chunkLoop(text, maxSize, overlap, breakPoint + 1 - overlap,
                                Append(acc, substring(text, start, breakPoint + 1)))
                 ELSE chunkLoop(text, maxSize, overlap, end - overlap,
                                Append(acc, chunk))
        ELSE Append(acc, chunk)

\* a filter that also drops chunks of one character
dropBlankOrSingle(cs) == SelectSeq(cs, LAMBDA c : Len(trim(c)) > 1)

\* chunks.filter(chunk => chunk.trim().length > 0)
dropBlank(cs) == SelectSeq(cs, LAMBDA c : Len(trim(c)) > 0)

chunkText(text, maxSize, overlap) ==
  dropBlank(chunkLoop(text, maxSize, overlap, 0, <<>>))

----------------------------------------------------------------------------
(* ReferenceProcessor.parseFactsFromResponse *)

\* 'fact ', 'subject:', 'action:', 'details:'
LblFact == <<102, 97, 99, 116, 32>>
LblSubject == <<115, 117, 98, 106, 101, 99, 116, 58>>
LblAction == <<97, 99, 116, 105, 111, 110, 58>>
LblDetails == <<100, 101, 116, 97, 105, 108, 115, 58>>

\* length of the match of /FACT \d+:/i at index k of s, 0 when there is none
factLabelLen(s, k) ==
  IF ~matchesAtCI(s, k, LblFact) THEN 0
  ELSE LET e == digitsEnd(s, k + 5)
       IN  IF e > k + 5 /\ e <= Len(s) /\ s[e] = 58 THEN e + 1 - k ELSE 0

\* response.split(/FACT \d+:/i), scanning from index `from`
RECURSIVE splitFactsFrom(_, _)
splitFactsFrom(s, from) ==
  LET hits == {k \in from..Len(s) : factLabelLen(s, k) > 0}
  IN  IF hits = {} THEN <<SubSeq(s, from, Len(s))>>
      ELSE LET k == MinOf(hits)
           IN  <<SubSeq(s, from, k - 1)>> \o splitFactsFrom(s, k + factLabelLen(s, k))

\* the attempt of /label\s*(.+)/i with the label matched at index k: \s* is greedy
\* and gives characters back until (.+) finds a character that is no line terminator
fieldAt(s, label, k) ==
  LET p == k + Len(label)
      q == spacesEnd(s, p)
      back == {j \in p..(q - 1) : ~IsLineTerminator(s[j])}
  IN  IF q <= Len(s)
      THEN [ok |-> TRUE, text |-> SubSeq(s, q, lineEnd(s, q) - 1)]
      ELSE IF back # {}
      THEN [ok |-> TRUE,
            text |-> SubSeq(s, MaxOf(back), lineEnd(s, MaxOf(back)) - 1)]
      ELSE [ok |-> FALSE, text |-> <<>>]

\* block.match(/label\s*(.+)/i): the leftmost match, group 1
matchField(s, label) ==
  LET starts == {k \in 1..Len(s) : matchesAtCI(s, k, label) /\ fieldAt(s, label, k).ok}
  IN  IF starts = {} THEN [ok |-> FALSE, text |-> <<>>]
      ELSE fieldAt(s, label, MinOf(starts))

\* if (subjectMatch && actionMatch && detailsMatch)
blockAcceptedAny(block) ==
  \/ matchField(block, LblSubject).ok
  \/ matchField(block, LblAction).ok
  \/ matchField(block, LblDetails).ok
blockAccepted(block) ==
  /\ matchField(block, LblSubject).ok
  /\ matchField(block, LblAction).ok
  /\ matchField(block, LblDetails).ok

factOfBlock(block) ==
  [subject |-> trim(matchField(block, LblSubject).text),
   action |-> trim(matchField(block, LblAction).text),
   details |-> trim(matchField(block, LblDetails).text)]

parseFactsFromResponse(response) ==
  LET factBlocks == Tail(splitFactsFrom(response, 1))
      kept == SelectSeq(factBlocks, blockAccepted)
  IN  [k \in 1..Len(kept) |-> factOfBlock(kept[k])]

----------------------------------------------------------------------------
(* ReferenceProcessor.deduplicateAndRankFacts *)

\* one row of the matrix: row i of str2 against every prefix of str1, from the
\* row above (prev) and the cells of this row filled so far (acc); cell 1 is column 0
RECURSIVE levRow(_, _, _, _, _)
levRow(str1, str2, i, prev, acc) ==
  LET j == Len(acc)
  IN  IF j > Len(str1) THEN acc
      ELSE LET cell == IF str2[i] = str1[j]
                       THEN prev[j]
                       ELSE Min2(Min2(prev[j] + 1, acc[j] + 1), prev[j + 1] + 1)
           IN  levRow(str1, str2, i, prev, Append(acc, cell))

RECURSIVE levRows(_, _, _, _)
levRows(str1, str2, i, prev) ==
  IF i > Len(str2) THEN prev
  ELSE levRows(str1, str2, i + 1, levRow(str1, str2, i, prev, <<i>>))

levenshteinDistance(str1, str2) ==
  levRows(str1, str2, 1, [j \in 1..(Len(str1) + 1) |-> j - 1])[Len(str1) + 1]

\* calculateStringSimilarity(str1, str2) > 0.7 with the quotient
\* (longer.length - editDistance) / longer.length compared in tenths
\* the same with >= 0.7
similarityAtLeast70(str1, str2) ==
  LET longer == IF Len(str1) > Len(str2) THEN str1 ELSE str2
      shorter == IF Len(str1) > Len(str2) THEN str2 ELSE str1
  IN  IF Len(longer) = 0 THEN TRUE
      ELSE 10 * (Len(longer) - levenshteinDistance(longer, shorter)) >= 7 * Len(longer)

similarityAbove70(str1, str2) ==
  LET longer == IF Len(str1) > Len(str2) THEN str1 ELSE str2
      shorter == IF Len(str1) > Len(str2) THEN str2 ELSE str1
  IN  IF Len(longer) = 0 THEN TRUE
      ELSE 10 * (Len(longer) - levenshteinDistance(longer, shorter)) > 7 * Len(longer)

areFactsSimilar(fact1, fact2) ==
  similarityAbove70(toLowerCase(fact1.subject), toLowerCase(fact2.subject))

\* /\d/.test
hasDigit(s) == \E k \in 1..Len(s) : IsDigit(s[k])

\* /[A-Z][a-z]/.test
hasCapitalizedWord(s) ==
  \E k \in 1..(Len(s) - 1) :
    /\ s[k] >= 65 /\ s[k] <= 90
    /\ s[k + 1] >= 97 /\ s[k + 1] <= 122

\* the score in hundredths: details.length * 0.1, + 5, + 3, subject.length * 0.05
calculateRelevanceScore(fact) ==
  10 * Len(fact.details)
  + (IF hasDigit(fact.details) THEN 500 ELSE 0)
  + (IF hasCapitalizedWord(fact.subject) THEN 300 ELSE 0)
  + 5 * Len(fact.subject)

\* a loop in which a fact replaces the facts pushed before that are similar to it
RECURSIVE uniqueFactsLastWins(_, _)
uniqueFactsLastWins(facts, uniqueFacts) ==
  IF facts = <<>> THEN uniqueFacts
  ELSE uniqueFactsLastWins(Tail(facts),
         Append(SelectSeq(uniqueFacts, LAMBDA u : ~areFactsSimilar(Head(facts), u)),
                Head(facts)))

\* a loop in which a fact is compared with the fact pushed last only
RECURSIVE uniqueFactsAgainstLast(_, _)
uniqueFactsAgainstLast(facts, uniqueFacts) ==
  IF facts = <<>> THEN uniqueFacts
  ELSE LET fact == Head(facts)
           isDuplicate ==
             uniqueFacts # <<>> /\ areFactsSimilar(fact, uniqueFacts[Len(uniqueFacts)])
       IN  uniqueFactsAgainstLast(Tail(facts),
                                  IF isDuplicate THEN uniqueFacts
                                  ELSE Append(uniqueFacts, fact))

\* the for loop: a fact is pushed unless some fact pushed before is similar to it
RECURSIVE uniqueFactsOf(_, _)
uniqueFactsOf(facts, uniqueFacts) ==
  IF facts = <<>> THEN uniqueFacts
  ELSE LET fact == Head(facts)
           isDuplicate ==
             \E k \in 1..Len(uniqueFacts) : areFactsSimilar(fact, uniqueFacts[k])
       IN  uniqueFactsOf(Tail(facts),
                         IF isDuplicate THEN uniqueFacts ELSE Append(uniqueFacts, fact))

\* {...fact, relevanceScore: score}
withScore(fact, score) ==
  [subject |-> fact.subject, action |-> fact.action, details |-> fact.details,
   relevanceScore |-> score]

\* Array.prototype.sort((a, b) => b.relevanceScore - a.relevanceScore): a stable
\* sort, so a fact goes behind every fact already placed that scores as much or more
RECURSIVE sortByScoreInto(_, _)
sortByScoreInto(facts, sorted) ==
  IF facts = <<>> THEN sorted
  ELSE LET f == Head(facts)
           ahead == {k \in 1..Len(sorted) : sorted[k].relevanceScore >= f.relevanceScore}
           n == IF ahead = {} THEN 0 ELSE MaxOf(ahead)
       IN  sortByScoreInto(Tail(facts),
             SubSeq(sorted, 1, n) \o <<f>> \o SubSeq(sorted, n + 1, Len(sorted)))

\* a sort that is skipped
sortSkipped(facts) == facts
\* a descending sort that puts facts of equal score in the opposite order
sortTiesReversed(facts) ==
  sortByScoreInto([k \in 1..Len(facts) |-> facts[Len(facts) + 1 - k]], <<>>)
sortByScore(facts) == sortByScoreInto(facts, <<>>)

\* a slice that keeps one element
sliceToOne(s, n) == SubSeq(s, 1, Min2(1, Len(s)))
\* Array.prototype.slice(0, n)
sliceTo(s, n) == SubSeq(s, 1, Min2(n, Len(s)))

deduplicateAndRankFacts(facts) ==
  LET uniqueFacts == uniqueFactsOf(facts, <<>>)
      scored == [k \in 1..Len(uniqueFacts) |->
                   withScore(uniqueFacts[k], calculateRelevanceScore(uniqueFacts[k]))]
  IN  sliceTo(sortByScore(scored), 10)

----------------------------------------------------------------------------
(* ContentWriter *)

\* String.prototype.split(sep) for a single character, scanning from index `from`
RECURSIVE splitOnFrom(_, _, _)
splitOnFrom(s, sep, from) ==
  LET hits == {k \in from..Len(s) : s[k] = sep}
  IN  IF hits = {} THEN <<SubSeq(s, from, Len(s))>>
      ELSE <<SubSeq(s, from, MinOf(hits) - 1)>> \o splitOnFrom(s, sep, MinOf(hits) + 1)

\* String.prototype.split(/\s+/), scanning from index `from`
RECURSIVE splitSpacesFrom(_, _)
splitSpacesFrom(s, from) ==
  LET hits == {k \in from..Len(s) : IsSpace(s[k])}
  IN  IF hits = {} THEN <<SubSeq(s, from, Len(s))>>
      ELSE <<SubSeq(s, from, MinOf(hits) - 1)>>
           \o splitSpacesFrom(s, spacesEnd(s, MinOf(hits)))

\* replace(/^\d+\.\s*/, '')
stripNumbering(s) ==
  LET e == digitsEnd(s, 1)
  IN  IF e > 1 /\ e <= Len(s) /\ s[e] = 46
      THEN SubSeq(s, spacesEnd(s, e + 1), Len(s))
      ELSE s

\* replace(/^[-•]\s*/, '')
stripBullet(s) ==
  IF Len(s) > 0 /\ s[1] \in {45, 8226}
  THEN SubSeq(s, spacesEnd(s, 2), Len(s))
  ELSE s

\* replace(/^(a|b)/i, '') for two literals given in lower case
stripLabel(s, a, b) ==
  IF matchesAtCI(s, 1, a) THEN SubSeq(s, Len(a) + 1, Len(s))
  ELSE IF matchesAtCI(s, 1, b) THEN SubSeq(s, Len(b) + 1, Len(s))
  ELSE s

\* the example marker (U+C608 ':') and 'Example'
MarkYe == <<50696, 58>>
MarkExample == <<69, 120, 97, 109, 112, 108, 101>>

\* U+AC1C U+C694; U+C8FC U+C694 ' ' U+D2B9 U+C9D5; U+C0C1 U+C138 ' ' U+C815 U+BCF4
FallbackSections ==
  <<<<44060, 50836>>, <<51452, 50836, 32, 53945, 51669>>,
    <<49345, 49464, 32, 51221, 48372>>>>

validOutlineLine(line) ==
  /\ Len(line) > 0
  /\ ~includes(line, MarkYe) /\ ~includes(line, MarkExample)
  /\ containsKorean(line)

\* if (lines.length >= 2)
enoughTitlesOff(lines) == Len(lines) >= 1
enoughTitles(lines) == Len(lines) >= 2

parseOutlineResponse(response) ==
  LET raw == splitOnFrom(response, 10, 1)
      trimmed == [k \in 1..Len(raw) |-> trim(raw[k])]
      valid == SelectSeq(trimmed, validOutlineLine)
      lines == [k \in 1..Len(valid) |-> stripBullet(stripNumbering(valid[k]))]
  IN  IF enoughTitles(lines) THEN sliceTo(lines, 4) ELSE FallbackSections

\* ' ' U+B9AC U+D3EC U+D2B8, and U+B9AC U+D3EC U+D2B8 ' ' U+CD08 U+C548
TitleSuffix == <<32, 47532, 54252, 53944>>
TitlePlaceholder == <<47532, 54252, 53944, 32, 52488, 50504>>

\* a title taken from the last fact
generateReportTitleFromLast(facts, instr) ==
  IF Len(facts) > 0 THEN facts[Len(facts)].subject \o TitleSuffix ELSE TitlePlaceholder

generateReportTitle(facts, instr) ==
  IF Len(facts) > 0 THEN facts[1].subject \o TitleSuffix ELSE TitlePlaceholder

generateKoreanReportOutline(facts, instr, response) ==
  [title |-> generateReportTitle(facts, instr),
   sections |-> parseOutlineResponse(response)]

commonWords ==
  {<<116, 104, 101>>, <<97, 110, 100>>, <<102, 111, 114>>, <<97, 114, 101>>,
   <<98, 117, 116>>, <<110, 111, 116>>, <<121, 111, 117>>, <<97, 108, 108>>,
   <<99, 97, 110>>, <<104, 97, 100>>, <<104, 101, 114>>, <<119, 97, 115>>,
   <<111, 110, 101>>, <<111, 117, 114>>, <<111, 117, 116>>, <<100, 97, 121>>,
   <<103, 101, 116>>, <<104, 97, 115>>, <<104, 105, 109>>, <<104, 105, 115>>,
   <<104, 111, 119>>, <<105, 116, 115>>, <<109, 97, 121>>, <<110, 101, 119>>,
   <<110, 111, 119>>, <<111, 108, 100>>, <<115, 101, 101>>, <<116, 119, 111>>,
   <<119, 104, 111>>, <<98, 111, 121>>, <<100, 105, 100>>, <<100, 111, 101, 115>>,
   <<102, 114, 111, 109>>, <<104, 97, 118, 101>>, <<116, 104, 101, 121>>,
   <<116, 104, 105, 115>>, <<98, 101, 101, 110>>, <<101, 97, 99, 104>>,
   <<108, 105, 107, 101>>, <<109, 111, 114, 101>>, <<119, 105, 108, 108>>,
   <<97, 98, 111, 117, 116>>, <<99, 111, 117, 108, 100>>, <<111, 116, 104, 101, 114>>,
   <<97, 102, 116, 101, 114>>, <<102, 105, 114, 115, 116>>,
   <<110, 101, 118, 101, 114>>, <<116, 104, 101, 115, 101>>,
   <<116, 104, 105, 110, 107>>, <<119, 104, 101, 114, 101>>,
   <<98, 101, 105, 110, 103>>, <<101, 118, 101, 114, 121>>, <<103, 114, 101, 97, 116>>,
   <<109, 105, 103, 104, 116>>, <<115, 104, 97, 108, 108>>,
   <<115, 116, 105, 108, 108>>, <<116, 104, 111, 115, 101>>,
   <<117, 110, 100, 101, 114>>, <<119, 104, 105, 108, 101>>}

isCommonWord(word) == toLowerCase(word) \in commonWords

\* \w
IsWordChar(c) ==
  \/ (c >= 48 /\ c <= 57) \/ (c >= 65 /\ c <= 90) \/ (c >= 97 /\ c <= 122) \/ c = 95

\* replace(/[^\w\s]/g, ' ')
blankPunctuation(s) ==
  [k \in 1..Len(s) |-> IF IsWordChar(s[k]) \/ IsSpace(s[k]) THEN s[k] ELSE 32]

longerThan1(word) == Len(word) > 1
longerThan2(word) == Len(word) > 2
notCommon(word) == ~isCommonWord(word)

extractKeywords(text) ==
  IF containsKorean(text)
  THEN sliceTo(SelectSeq(splitSpacesFrom(text, 1), longerThan1), 5)
  ELSE sliceTo(SelectSeq(SelectSeq(splitSpacesFrom(blankPunctuation(text), 1),
                                   longerThan2), notCommon), 5)

RECURSIVE keywordScore(_, _)
keywordScore(factText, keywords) ==
  IF keywords = <<>> THEN 0
  ELSE (IF includes(factText, Head(keywords)) THEN Len(Head(keywords)) ELSE 0)
       + keywordScore(factText, Tail(keywords))

\* the per-section score in hundredths: keyword lengths, details.length * 0.01
sectionScore(fact, sectionKeywords) ==
  LET factText == toLowerCase(fact.subject \o <<32>> \o fact.action \o <<32>> \o fact.details)
  IN  100 * keywordScore(factText, sectionKeywords) + Len(fact.details)

findRelevantFacts(sectionTitle, facts) ==
  LET sectionKeywords == extractKeywords(toLowerCase(sectionTitle))
      scoredFacts == [k \in 1..Len(facts) |->
                        withScore(facts[k], sectionScore(facts[k], sectionKeywords))]
  IN  sliceTo(sortByScore(scoredFacts), 4)

\* U+C5D0 ' ' U+B300 U+D55C ' ' U+C815 U+BCF4 U+AC00 ' ' U+BD80 U+C871 U+D569 U+B2C8 U+B2E4 '.'
PlaceholderSuffix ==
  <<50640, 32, 45824, 54620, 32, 51221, 48372, 44032, 32, 48512, 51313, 54633, 45768,
    45796, 46>>

\* 'section:', U+C139 U+C158 ':', 'content:', U+B0B4 U+C6A9 ':'
LblSection == <<115, 101, 99, 116, 105, 111, 110, 58>>
LblSectionKo == <<49465, 49496, 58>>
LblContent == <<99, 111, 110, 116, 101, 110, 116, 58>>
LblContentKo == <<45236, 50857, 58>>

cleanSectionContent(content) ==
  trim(stripNumbering(stripLabel(stripLabel(trim(content), LblSection, LblSectionKo),
                                 LblContent, LblContentKo)))

----------------------------------------------------------------------------
(* MultiTurnReportGenerator.combineIntoFinalReport *)

\* Number.prototype.toString for a natural number
RECURSIVE toDecimal(_)
toDecimal(n) ==
  IF n < 10 THEN <<48 + n>> ELSE Append(toDecimal(n \div 10), 48 + (n % 10))

\* '---\n*' U+C774 ' ' U+B9AC U+D3EC U+D2B8 U+B294 ' ' ... ' ', then U+AC1C ' '
\* U+C139 U+C158 ', ', then U+AC1C ' ' U+C8FC U+C694 ' ' ... '.*'
FooterHead ==
  <<45, 45, 45, 10, 42, 51060, 32, 47532, 54252, 53944, 45716, 32, 52280, 44256, 51088,
    47308, 47484, 32, 48148, 53461, 51004, 47196, 32>>
FooterMid == <<44060, 32, 49465, 49496, 44, 32>>
FooterTail ==
  <<44060, 32, 51452, 50836, 32, 49324, 49892, 51012, 32, 54876, 50857, 54616, 50668, 32,
    51089, 49457, 46104, 50632, 49845, 45768, 45796, 46, 42>>

\* the parts pushed in the opposite order
RECURSIVE sectionPartsReversed(_)
sectionPartsReversed(secs) ==
  IF secs = <<>> THEN <<>>
  ELSE sectionPartsReversed(Tail(secs))
       \o <<35, 35, 32>> \o Head(secs).title \o <<10, 10>> \o Head(secs).content \o <<10, 10>>

\* sections.forEach(section => reportParts.push(...))
RECURSIVE sectionParts(_)
sectionParts(secs) ==
  IF secs = <<>> THEN <<>>
  ELSE <<35, 35, 32>> \o Head(secs).title \o <<10, 10>> \o Head(secs).content \o <<10, 10>>
       \o sectionParts(Tail(secs))

\* the facts of the first section only
factCountOfFirst(secs) == IF secs = <<>> THEN 0 ELSE Len(Head(secs).facts)

\* sections.reduce((sum, section) => sum + section.facts.length, 0)
RECURSIVE factCountOf(_)
factCountOf(secs) ==
  IF secs = <<>> THEN 0 ELSE Len(Head(secs).facts) + factCountOf(Tail(secs))

combineIntoFinalReport(title, secs) ==
  <<35, 32>> \o title \o <<10, 10>>
  \o sectionParts(secs)
  \o FooterHead \o toDecimal(Len(secs)) \o FooterMid \o toDecimal(factCountOf(secs))
  \o FooterTail

----------------------------------------------------------------------------
(* Inputs *)

RECURSIVE SeqsUpTo(_, _)
SeqsUpTo(S, n) ==
  IF n = 0 THEN {<<>>}
  ELSE LET shorter == SeqsUpTo(S, n - 1)
       IN  shorter \cup {Append(s, c) : s \in shorter, c \in S}

\* 'a', U+CD08, U+C548 (together the keyword "draft"), U+AC00 (Hangul, no keyword)
InstrAlphabet == {97, 52488, 50504, 44032}

\* the instructions of the test scenarios (src/unnamed/part_009:184-209), each
\* keyword on its own, a lone Hangul jamo, and every short string over InstrAlphabet
Instructions ==
  {<<52280, 44256, 51088, 47308, 47484, 32, 54876, 50857, 54644, 49436, 32, 47532,
     54252, 53944, 51032, 32, 52488, 50504, 51012, 32, 47564, 46308, 50612, 51480>>,
   <<87, 114, 105, 116, 101, 32, 97, 32, 114, 101, 112, 111, 114, 116, 32, 117, 115,
     105, 110, 103, 32, 114, 101, 102, 101, 114, 101, 110, 99, 101, 32, 109, 97, 116,
     101, 114, 105, 97, 108, 115>>,
   <<47532, 54252, 53944, 32, 52488, 50504, 51012, 32, 51089, 49457, 54644, 51480>>,
   <<47532, 54252, 53944, 47484, 32, 51089, 49457, 54644, 51480>>,
   KwReport, KwBogoseo, KwDraft, KwWrite, <<12593>>}
  \cup SeqsUpTo(InstrAlphabet, MaxInstrLen)

\* 'Small reference text' (src/unnamed/part_009:210)
SmallRef ==
  <<83, 109, 97, 108, 108, 32, 114, 101, 102, 101, 114, 101, 110, 99, 101, 32, 116,
    101, 120, 116>>

\* reference texts around the size threshold: solid ('x') and blank (' ') texts
GateRefs ==
  {<<>>, SmallRef, Rep(120, 799), Rep(120, 800), Rep(120, 801), Rep(32, 3),
   Rep(32, 800), Rep(32, 801), Rep(32, 900), Rep(32, 800) \o <<120>>,
   <<120>> \o Rep(32, 799)}

NoReply == [kind |-> "none"]
NoResult == [kind |-> "none"]
NoCall == [fn |-> "none", args |-> <<>>]
NoOutline == [title |-> <<>>, sections |-> <<>>]

\* the state before generateKoreanReport is called
PipeIdle ==
  /\ pc = "idle" /\ gpc = "none" /\ caller = "none"
  /\ retryI = 0 /\ lastError = "null" /\ attempts = <<>> /\ genOut = NoResult
  /\ inflight = 0 /\ calls = 0 /\ reply = NoReply /\ failures = 0
  /\ chunks = <<>> /\ chunkIdx = 0 /\ allFacts = <<>> /\ chunkLog = <<>>
  /\ keyFacts = <<>> /\ outline = NoOutline /\ secIdx = 0 /\ sections = <<>>
  /\ events = <<>> /\ result = NoResult

\* handleMultiTurnGeneration awaits the report, nothing is inserted
HostIdle ==
  /\ cancelRequested = FALSE /\ editorBlocks = <<>> /\ insertSections = <<>>
  /\ hostPc = "awaiting"
  /\ isProcessing = FALSE /\ chatPc = "idle" /\ paths = <<>> /\ dropped = 0

\* no function has been called on its own
UnitsIdle ==
  /\ cText = <<>> /\ cMaxSize = 0 /\ cOverlap = 0 /\ cStart = 0
  /\ cChunks = <<>> /\ cSpans = <<>> /\ cPc = "idle"
  /\ dFacts = <<>> /\ dOut = NoResult
  /\ aTitle = <<>> /\ aSections = <<>> /\ aDoc = NoResult
  /\ wTitle = <<>> /\ wFacts = <<>> /\ wOut = NoResult
  /\ pFacts = <<>> /\ pOut = NoResult
  /\ uCall = NoCall /\ uRet = NoResult

----------------------------------------------------------------------------
(* The text-generation service: what it may answer, and how it may fail *)

\* two well-formed blocks: subjects 'Vizz' and 'Lenz'
RespTwoFacts ==
  <<70, 65, 67, 84, 32, 49, 58, 10, 83, 117, 98, 106, 101, 99, 116, 58, 32, 86, 105,
    122, 122, 10, 65, 99, 116, 105, 111, 110, 58, 32, 111, 107, 10, 68, 101, 116, 97,
    105, 108, 115, 58, 32, 100, 49, 10, 70, 65, 67, 84, 32, 50, 58, 10, 83, 117, 98,
    106, 101, 99, 116, 58, 32, 76, 101, 110, 122, 10, 65, 99, 116, 105, 111, 110, 58,
    32, 109, 97, 100, 101, 10, 68, 101, 116, 97, 105, 108, 115, 58, 32, 110, 111, 110,
    101>>
\* lower-case labels, subject 'vizz', then a block without Details
RespOneFact ==
  <<102, 97, 99, 116, 32, 49, 58, 10, 115, 117, 98, 106, 101, 99, 116, 58, 32, 118,
    105, 122, 122, 10, 97, 99, 116, 105, 111, 110, 58, 32, 120, 10, 100, 101, 116, 97,
    105, 108, 115, 58, 32, 51, 48, 32, 100, 97, 121, 115, 10, 70, 65, 67, 84, 32, 50,
    58, 10, 83, 117, 98, 106, 101, 99, 116, 58, 32, 69, 121, 101, 10, 65, 99, 116,
    105, 111, 110, 58, 32, 121>>
\* five well-formed blocks: subjects 'a' to 'e', each with action 'x' and details 'z'
RespFiveFacts ==
  <<70, 65, 67, 84, 32, 49, 58, 10, 83, 117, 98, 106, 101, 99, 116, 58, 32, 97, 10, 65,
    99, 116, 105, 111, 110, 58, 32, 120, 10, 68, 101, 116, 97, 105, 108, 115, 58, 32,
    122, 10, 70, 65, 67, 84, 32, 50, 58, 10, 83, 117, 98, 106, 101, 99, 116, 58, 32, 98,
    10, 65, 99, 116, 105, 111, 110, 58, 32, 120, 10, 68, 101, 116, 97, 105, 108, 115,
    58, 32, 122, 10, 70, 65, 67, 84, 32, 51, 58, 10, 83, 117, 98, 106, 101, 99, 116, 58,
    32, 99, 10, 65, 99, 116, 105, 111, 110, 58, 32, 120, 10, 68, 101, 116, 97, 105, 108,
    115, 58, 32, 122, 10, 70, 65, 67, 84, 32, 52, 58, 10, 83, 117, 98, 106, 101, 99,
    116, 58, 32, 100, 10, 65, 99, 116, 105, 111, 110, 58, 32, 120, 10, 68, 101, 116, 97,
    105, 108, 115, 58, 32, 122, 10, 70, 65, 67, 84, 32, 53, 58, 10, 83, 117, 98, 106,
    101, 99, 116, 58, 32, 101, 10, 65, 99, 116, 105, 111, 110, 58, 32, 120, 10, 68, 101,
    116, 97, 105, 108, 115, 58, 32, 122>>
\* 'Mock AI response' (src/unnamed/part_009:51)
RespMock ==
  <<77, 111, 99, 107, 32, 65, 73, 32, 114, 101, 115, 112, 111, 110, 115, 101>>
\* five valid lines, the first numbered, the second bulleted
RespOutlineFive ==
  <<49, 46, 32, 44060, 50836, 10, 45, 32, 53945, 51669, 10, 44208, 44284, 10, 51204,
    47581, 10, 45796, 49455>>
\* an example marker, a blank line and two valid lines
RespOutlineTwo ==
  <<50696, 58, 10, 44060, 50836, 32, 118, 105, 122, 122, 10, 10, 44208, 44284>>
\* 'Section: ' and two Hangul syllables and '.'
RespSection ==
  <<83, 101, 99, 116, 105, 111, 110, 58, 32, 44032, 45208, 46>>

\* outline responses of up to MaxOutlineLines lines, each a numbered heading, a
\* bulleted heading, a heading between a blank and a carriage return, a line with the
\* example marker, an empty line or a line without Hangul; and two fixed responses
PlanResponses ==
  LET pool == {<<49, 46, 32, 44060, 50836>>, <<45, 32, 53945, 51669>>,
               <<32, 44208, 44284, 13>>, <<50696, 58, 32, 51204, 47581>>,
               <<>>, <<79, 118>>}
      RECURSIVE joined(_)
      joined(ls) == IF Len(ls) = 0 THEN <<>>
                    ELSE IF Len(ls) = 1 THEN ls[1]
                    ELSE ls[1] \o <<10>> \o joined(Tail(ls))
  IN  {joined(ls) : ls \in SeqsUpTo(pool, MaxOutlineLines)}
      \cup {RespOutlineFive, RespMock}

Responses(who) ==
  IF who = "extract" THEN {RespTwoFacts, RespOneFact, RespFiveFacts, RespMock}
  ELSE IF who = "outline" THEN {RespOutlineFive, RespOutlineTwo, RespMock}
  ELSE IF who = "plan" THEN PlanResponses
  ELSE {RespSection, RespMock}

\* the messages of the errors the service rejects with
ServiceErrors == {"E1", "E2"}

\* the message of the error of MultiTurnReportGenerator.ts:42
NoFactsError == "NoFacts"

Pending == [kind |-> "pending"]

\* the outcome `out` of the oldest call that is still pending
settle(log, out) ==
  LET k == MinOf({j \in 1..Len(log) : log[j] = Pending})
  IN  [log EXCEPT ![k] = out]

ServiceSucceeds ==
  /\ inflight > 0 /\ reply = NoReply
  /\ \E text \in Responses(caller) :
       /\ reply' = [kind |-> "ok", text |-> text]
       /\ attempts' = settle(attempts, [kind |-> "ok", text |-> text])
  /\ inflight' = inflight - 1
  /\ UNCHANGED <<instruction, referenceText, gate, pc, gpc, caller, retryI, lastError,
                 genOut, calls, failures, chunks, chunkIdx, allFacts, chunkLog, keyFacts,
                 outline, secIdx, sections, events, result>>
  /\ UNCHANGED unitVars
  /\ UNCHANGED hostVars

ServiceFails ==
  /\ inflight > 0 /\ reply = NoReply
  /\ failures < MaxFailures
  /\ \E e \in ServiceErrors :
       /\ reply' = [kind |-> "fail", error |-> e]
       /\ attempts' = settle(attempts, [kind |-> "fail", error |-> e])
  /\ inflight' = inflight - 1
  /\ failures' = failures + 1
  /\ UNCHANGED <<instruction, referenceText, gate, pc, gpc, caller, retryI, lastError,
                 genOut, calls, chunks, chunkIdx, allFacts, chunkLog, keyFacts,
                 outline, secIdx, sections, events, result>>
  /\ UNCHANGED unitVars
  /\ UNCHANGED hostVars

----------------------------------------------------------------------------
(* Progress events: progress is the fraction <<numerator, denominator>> *)

Ev(stage, num, den, err) == [stage |-> stage, progress |-> <<num, den>>, error |-> err]

ProcessingEvent == Ev("processing", 10, 1, "null")
PlanningEventOff == Ev("planning", 5, 1, "null")
PlanningEvent == Ev("planning", 30, 1, "null")
\* 40 + (i / totalSections) * 50
WritingEventOff(i, totalSections) ==
  Ev("writing", 40 * totalSections + 50 * (i + 1), totalSections, "null")
WritingEvent(i, totalSections) ==
  Ev("writing", 40 * totalSections + 50 * i, totalSections, "null")
FinalizingEvent == Ev("finalizing", 90, 1, "null")
CompleteEvent == Ev("complete", 100, 1, "null")
ErrorEvent(err) == Ev("error", 0, 1, err)

----------------------------------------------------------------------------
(* BaseAgent.generateWithRetry, called by the three stages *)

maxRetries == 2
\* the sizes processReference hands to chunkText
ChunkMaxSize == 500
ChunkOverlap == 100

inputVars == <<instruction, referenceText, gate>>
genVars == <<gpc, caller, retryI, lastError, attempts, inflight, calls, reply>>

\* for (let i = 0; i <= maxRetries; i++)
loopContinuesOff(i) == i <= maxRetries + 1
loopContinues(i) == i <= maxRetries

\* lastError = error
catchErrorFirst(prev, error) == IF prev = "null" THEN error ELSE prev
catchError(prev, error) == error

\* if (i < maxRetries) await the delay
delaysBeforeRetry(i) == i < maxRetries

\* the delay is awaited only after the awaited call has failed
delayPendingEager == gpc = "delay" \/ (gpc = "awaiting" /\ reply = NoReply)
delayPending == gpc = "delay"

\* a call of generateWithRetry by stage `who`: i = 0 and the first service call
Invoke(who) ==
  /\ caller' = who /\ gpc' = "awaiting" /\ retryI' = 0 /\ lastError' = "null"
  /\ attempts' = <<Pending>> /\ reply' = NoReply
  /\ inflight' = inflight + 1 /\ calls' = calls + 1

\* no invocation of generateWithRetry is active any more; attempts keeps the calls
\* of the last one
GenIdle ==
  /\ caller' = "none" /\ gpc' = "none" /\ retryI' = 0 /\ lastError' = "null"
  /\ attempts' = attempts /\ inflight' = inflight /\ calls' = calls /\ reply' = NoReply

----------------------------------------------------------------------------
(* MultiTurnReportGenerator.generateKoreanReport and                       *)
(* ReferenceProcessor.processReference, between two service calls          *)

\* a catch block that emits no event
FailUnreported(err, evs) ==
  /\ events' = evs
  /\ result' = [kind |-> "throw", error |-> err]
  /\ pc' = "error"
  /\ GenIdle

\* a catch block that returns an empty document instead of throwing
FailSilently(err, evs) ==
  /\ events' = Append(evs, ErrorEvent(err))
  /\ result' = [kind |-> "value", doc |-> <<>>]
  /\ pc' = "error"
  /\ GenIdle

\* the catch block: error event, then throw error
Fail(err, evs) ==
  /\ events' = Append(evs, ErrorEvent(err))
  /\ result' = [kind |-> "throw", error |-> err]
  /\ pc' = "error"
  /\ GenIdle

\* if (keyFacts.length === 0)
noFactsOff(kf) == FALSE
noFacts(kf) == Len(kf) = 0

\* from the return of processReference with key facts kf to the outline call
AfterProcessReference(kf, evs) ==
  /\ keyFacts' = kf
  /\ IF noFacts(kf)
     THEN Fail(NoFactsError, evs)
     ELSE /\ events' = Append(evs, PlanningEvent)
          /\ pc' = "planning"
          /\ result' = result
          /\ Invoke("outline")
  /\ UNCHANGED <<outline, secIdx, sections>>

\* !referenceText || referenceText.trim().length === 0
isBlank(ref) == Len(ref) = 0 \/ Len(trim(ref)) = 0

\* the call of generateKoreanReport, up to its first service call
GenerateKoreanReport ==
  /\ pc = "idle"
  /\ IF isBlank(referenceText)
     THEN /\ AfterProcessReference(<<>>, <<ProcessingEvent>>)
          /\ UNCHANGED <<chunks, chunkIdx, allFacts, chunkLog>>
     ELSE LET cs == chunkText(referenceText, ChunkMaxSize, ChunkOverlap)
          IN  /\ chunks' = cs /\ chunkIdx' = 0 /\ allFacts' = <<>> /\ chunkLog' = <<>>
              /\ IF 0 < Len(cs)
                 THEN /\ events' = <<ProcessingEvent>>
                      /\ pc' = "extracting"
                      /\ Invoke("extract")
                      /\ UNCHANGED <<keyFacts, outline, secIdx, sections, result>>
                 ELSE AfterProcessReference(deduplicateAndRankFacts(<<>>),
                                            <<ProcessingEvent>>)
  /\ UNCHANGED <<genOut, failures>>
  /\ UNCHANGED inputVars
  /\ UNCHANGED unitVars
  /\ UNCHANGED hostVars

\* try { ... } catch (error) { /* continue with other chunks */ }
swallowsChunkErrorOff == FALSE
swallowsChunkError == TRUE

\* processReference after extractFactsFromChunk returned or threw for chunk chunkIdx
ExtractCont(out) ==
  LET facts == IF out.kind = "return" THEN parseFactsFromResponse(out.text) ELSE <<>>
      all == allFacts \o facts
  IN  /\ pc = "extracting"
      /\ IF out.kind = "throw" /\ ~swallowsChunkError
         THEN /\ Fail(out.error, events)
              /\ UNCHANGED <<chunkIdx, allFacts, chunkLog, keyFacts, outline, secIdx,
                             sections>>
         ELSE /\ allFacts' = all
              /\ chunkLog' = Append(chunkLog,
                                    [failed |-> out.kind = "throw", facts |-> facts])
              /\ chunkIdx' = chunkIdx + 1
              /\ IF chunkIdx + 1 < Len(chunks)
                 THEN /\ Invoke("extract")
                      /\ UNCHANGED <<pc, keyFacts, outline, secIdx, sections, events,
                                     result>>
                 ELSE AfterProcessReference(deduplicateAndRankFacts(all), events)
      /\ UNCHANGED chunks
      /\ UNCHANGED writeVars

\* the section loop from iteration i on, up to the next service call or its end
RECURSIVE runSections(_, _, _, _, _)
runSections(i, secs, evs, titles, facts) ==
  IF ~(i < Len(titles))
  THEN [done |-> TRUE, i |-> i, sections |-> secs, events |-> evs]
  ELSE LET sectionTitle == titles[i + 1]
           evs2 == Append(evs, WritingEvent(i, Len(titles)))
           relevantFacts == findRelevantFacts(sectionTitle, facts)
       IN  IF Len(relevantFacts) = 0
           THEN runSections(i + 1,
                            Append(secs, [title |-> sectionTitle,
                                          content |-> sectionTitle \o PlaceholderSuffix,
                                          facts |-> relevantFacts]),
                            evs2, titles, facts)
           ELSE [done |-> FALSE, i |-> i, sections |-> secs, events |-> evs2]

\* what follows the section loop `run`: the next writeSection call or the assembly
SectionsStep(run, ol) ==
  /\ secIdx' = run.i
  /\ sections' = run.sections
  /\ IF run.done
     THEN /\ events' = run.events \o <<FinalizingEvent, CompleteEvent>>
          /\ result' = [kind |-> "value",
                        doc |-> combineIntoFinalReport(ol.title, run.sections)]
          /\ pc' = "complete"
          /\ GenIdle
     ELSE /\ events' = run.events
          /\ result' = result
          /\ pc' = "writing"
          /\ Invoke("section")

\* generateKoreanReport after generateKoreanReportOutline's call returned or threw
OutlineCont(out) ==
  /\ pc = "planning"
  /\ IF out.kind = "throw"
     THEN /\ Fail(out.error, events)
          /\ UNCHANGED <<outline, secIdx, sections>>
     ELSE LET ol == generateKoreanReportOutline(keyFacts, instruction, out.text)
          IN  /\ outline' = ol
              /\ SectionsStep(runSections(0, <<>>, events, ol.sections, keyFacts), ol)
  /\ UNCHANGED <<chunks, chunkIdx, allFacts, chunkLog, keyFacts>>
  /\ UNCHANGED writeVars

\* generateKoreanReportOutline, called on its own, after its generateWithRetry
\* returned or threw
PlanCont(out) ==
  /\ pOut' = IF out.kind = "return"
             THEN [kind |-> "return",
                   outline |-> generateKoreanReportOutline(pFacts, instruction, out.text)]
             ELSE [kind |-> "throw", error |-> out.error]
  /\ GenIdle
  /\ UNCHANGED <<wTitle, wFacts, wOut, pFacts, pc, chunks, chunkIdx, allFacts, chunkLog,
                 keyFacts, outline, secIdx, sections, events, result>>

\* generateKoreanReport after writeSection's call returned or threw for section secIdx
SectionCont(out) ==
  /\ pc = "writing"
  /\ IF out.kind = "throw"
     THEN /\ Fail(out.error, events)
          /\ UNCHANGED <<secIdx, sections>>
     ELSE LET sectionTitle == outline.sections[secIdx + 1]
              section == [title |-> sectionTitle,
                          content |-> cleanSectionContent(out.text),
                          facts |-> findRelevantFacts(sectionTitle, keyFacts)]
          IN  SectionsStep(runSections(secIdx + 1, Append(sections, section), events,
                                       outline.sections, keyFacts), outline)
  /\ UNCHANGED <<outline, chunks, chunkIdx, allFacts, chunkLog, keyFacts>>
  /\ UNCHANGED writeVars

\* if (relevantFacts.length === 0)
lacksFactsOff(relevantFacts) == FALSE
lacksFacts(relevantFacts) == Len(relevantFacts) = 0

\* writeSection, called on its own, after its generateWithRetry returned or threw
WriteCont(out) ==
  /\ wOut' = IF out.kind = "return"
             THEN [kind |-> "return", text |-> cleanSectionContent(out.text)]
             ELSE [kind |-> "throw", error |-> out.error]
  /\ GenIdle
  /\ UNCHANGED <<wTitle, wFacts, pFacts, pOut, pc, chunks, chunkIdx, allFacts, chunkLog, keyFacts,
                 outline, secIdx, sections, events, result>>

\* generateWithRetry returns or throws to the stage that called it
Continue(out) ==
  \/ caller = "extract" /\ ExtractCont(out)
  \/ caller = "outline" /\ OutlineCont(out)
  \/ caller = "section" /\ SectionCont(out)
  \/ caller = "write" /\ WriteCont(out)
  \/ caller = "plan" /\ PlanCont(out)

\* return await this.gemmaService.generate(prompt, options)
AttemptSucceeded ==
  /\ gpc = "awaiting" /\ reply.kind = "ok"
  /\ genOut' = [kind |-> "return", who |-> caller, text |-> reply.text]
  /\ Continue([kind |-> "return", text |-> reply.text])
  /\ UNCHANGED failures
  /\ UNCHANGED inputVars
  /\ UNCHANGED pureVars
  /\ UNCHANGED hostVars

\* i++ and the loop test: the next service call, or throw lastError
NextIteration(err) ==
  IF loopContinues(retryI + 1)
  THEN /\ retryI' = retryI + 1 /\ lastError' = err
       /\ gpc' = "awaiting" /\ reply' = NoReply
       /\ attempts' = Append(attempts, Pending)
       /\ inflight' = inflight + 1 /\ calls' = calls + 1
       /\ UNCHANGED <<caller, genOut, pc, chunks, chunkIdx, allFacts, chunkLog,
                      keyFacts, outline, secIdx, sections, events, result>>
       /\ UNCHANGED writeVars
  ELSE /\ genOut' = [kind |-> "throw", who |-> caller, error |-> err]
       /\ Continue([kind |-> "throw", error |-> err])

\* the catch block of one attempt
AttemptFailed ==
  /\ gpc = "awaiting" /\ reply.kind = "fail"
  /\ IF delaysBeforeRetry(retryI)
     THEN /\ lastError' = catchError(lastError, reply.error)
          /\ gpc' = "delay" /\ reply' = NoReply
          /\ UNCHANGED <<caller, retryI, attempts, genOut, inflight, calls, pc, chunks,
                         chunkIdx, allFacts, chunkLog, keyFacts, outline, secIdx,
                         sections, events, result>>
          /\ UNCHANGED writeVars
     ELSE NextIteration(catchError(lastError, reply.error))
  /\ UNCHANGED failures
  /\ UNCHANGED inputVars
  /\ UNCHANGED pureVars
  /\ UNCHANGED hostVars

\* setTimeout(resolve, 1000) fires
DelayElapsed ==
  /\ delayPending
  /\ NextIteration(lastError)
  /\ UNCHANGED failures
  /\ UNCHANGED inputVars
  /\ UNCHANGED pureVars
  /\ UNCHANGED hostVars

----------------------------------------------------------------------------
(* Specification of one run of generateKoreanReport *)

\* a text of k chunk windows: 'x' repeated
PlainText(k) == Rep(120, ChunkMaxSize + (k - 1) * (ChunkMaxSize - ChunkOverlap))

\* reference texts: empty, blank, short, plain texts of 1..MaxWindows windows, a text
\* whose first window ends in a sentence, and a text that is blank past its first window
PipelineRefs ==
  {<<>>, Rep(32, 3), SmallRef}
  \cup {PlainText(k) : k \in 1..MaxWindows}
  \cup {Rep(120, 450) \o <<46>> \o Rep(120, 100), Rep(120, 400) \o Rep(32, 600)}

\* the instruction of src/unnamed/part_009:82
TestInstruction ==
  <<52280, 44256, 51088, 47308, 47484, 32, 54876, 50857, 54644, 49436, 32, 47532,
    54252, 53944, 51032, 32, 52488, 50504, 51012, 32, 47564, 46308, 50612, 51480>>

Init ==
  /\ instruction = TestInstruction
  /\ referenceText \in PipelineRefs
  /\ gate = "unset"
  /\ PipeIdle
  /\ UnitsIdle
  /\ HostIdle

Next ==
  \/ GenerateKoreanReport
  \/ ServiceSucceeds
  \/ ServiceFails
  \/ AttemptSucceeded
  \/ AttemptFailed
  \/ DelayElapsed

Spec == Init /\ [][Next]_vars

----------------------------------------------------------------------------
(* Specification of the gate: the host calls shouldUseMultiTurn on its inputs *)

InitGate ==
  /\ instruction \in Instructions
  /\ referenceText \in GateRefs
  /\ gate = "unset"
  /\ PipeIdle
  /\ UnitsIdle
  /\ HostIdle

ShouldUseMultiTurn ==
  /\ gate = "unset"
  /\ gate' = IF shouldUseMultiTurn(instruction, referenceText) THEN "true" ELSE "false"
  /\ UNCHANGED <<instruction, referenceText>>
  /\ UNCHANGED pipeVars
  /\ UNCHANGED unitVars
  /\ UNCHANGED hostVars

NextGate == ShouldUseMultiTurn

SpecGate == InitGate /\ [][NextGate]_vars

----------------------------------------------------------------------------
(* Specification of the functions called on their own, one call per behaviour *)

InitCalls ==
  /\ instruction = TestInstruction
  /\ referenceText = <<>>
  /\ gate = "unset"
  /\ PipeIdle
  /\ UnitsIdle
  /\ HostIdle

\* a fact with a subject and details of the given length
FactOf(subject, detailsLen) ==
  [subject |-> subject, action |-> <<111, 107>>, details |-> Rep(100, detailsLen)]

\* sections with two titles, two contents and 0..4 facts (findRelevantFacts gives at
\* most 4), in lists of up to MaxSections, and lists of 10 and 11 sections
SectionLists ==
  LET pool == {[title |-> <<44060, 50836>> \o Rep(33, n % 2),
                content |-> RespMock \o Rep(46, n % 2),
                facts |-> [k \in 1..n |-> FactOf(<<86, 105, 122, 122>>, k)]] : n \in 0..4}
  IN  SeqsUpTo(pool, MaxSections)
      \cup {[k \in 1..n |-> CHOOSE s \in pool : Len(s.facts) = k % 5] : n \in {10, 11}}

\* chunkText arguments <<text, maxSize, overlap>>: every text over 'x', '.', ' ' up to
\* MaxTextLen with every maxSize up to MaxChunkSize and every overlap up to maxSize + 1;
\* texts of one '.', line break or blank among 'x' with windows of 7 and 10, where the
\* sentence cut differs from the hard cut; the pipeline's texts with its sizes; texts
\* of 900 and 1301 characters with '.' or line breaks at up to two places, before and
\* after 70% of each window, with the pipeline's sizes
ChunkInputs ==
  {in \in SeqsUpTo({120, 46, 32}, MaxTextLen) \X (1..MaxChunkSize) \X (0..(MaxChunkSize + 1)) :
     in[3] <= in[2] + 1}
  \cup {<<Rep(120, a) \o <<c>> \o Rep(120, b), mo[1], mo[2]>> :
          a \in 0..11, b \in 0..4, c \in {46, 10, 32},
          mo \in {<<7, 0>>, <<7, 2>>, <<7, 6>>, <<10, 3>>}}
  \cup {<<r, ChunkMaxSize, ChunkOverlap>> : r \in PipelineRefs}
  \cup LET marks == {350, 351, 352, 450, 499, 500, 603, 751, 850, 851, 899, 1102, 1250}
           marked(n, c, p, q) == [k \in 1..n |-> IF k = p + 1 \/ k = q + 1 THEN c ELSE 120]
       IN  {<<marked(n, c, p, q), ChunkMaxSize, ChunkOverlap>> :
              n \in {900, 1301}, c \in {46, 10}, p \in marks, q \in marks}

\* a call of chunkText, up to the first test of its loop
ChunkText ==
  /\ pc = "idle" /\ UnitsIdle
  /\ \E in \in ChunkInputs :
       /\ cText' = in[1] /\ cMaxSize' = in[2] /\ cOverlap' = in[3]
  /\ cStart' = 0 /\ cChunks' = <<>> /\ cSpans' = <<>> /\ cPc' = "loop"
  /\ UNCHANGED <<dFacts, dOut, aTitle, aSections, aDoc, uCall, uRet>>
  /\ UNCHANGED writeVars
  /\ UNCHANGED <<instruction, referenceText, gate>>
  /\ UNCHANGED pipeVars
  /\ UNCHANGED hostVars

\* one test of the loop of chunkText with the iteration it lets in, or with the
\* filter and the return when the loop is over
ChunkIteration ==
  /\ cPc = "loop" /\ Len(cChunks) < MaxIterations
  /\ LET end == Min2(cStart + cMaxSize, Len(cText))
         chunk == substring(cText, cStart, end)
         breakPoint == Max2(lastIndexOf(chunk, 46), lastIndexOf(chunk, 10))
         cut == end < Len(cText) /\ pastSeventyPercent(breakPoint, cStart, cMaxSize)
         to == IF cut THEN breakPoint + 1 ELSE end
         span == <<Max2(0, Min2(Min2(cStart, to), Len(cText))),
                   Max2(0, Min2(Max2(cStart, to), Len(cText)))>>
         pushed == Append(cChunks, substring(cText, cStart, to))
         spans == Append(cSpans, span)
         returned(cs, ss) ==
           /\ cChunks' = dropBlank(cs)
           /\ cSpans' = SelectSeq(ss, LAMBDA s :
                          \E k \in 1..Len(dropBlank(cs)) :
                            dropBlank(cs)[k] = SubSeq(cText, s[1] + 1, s[2]))
           /\ cPc' = "done"
           /\ cStart' = cStart
     IN  IF ~(cStart < Len(cText)) THEN returned(cChunks, cSpans)
         ELSE IF end < Len(cText)
              THEN /\ cChunks' = pushed
                   /\ cSpans' = spans
                   /\ cStart' = to - cOverlap
                   /\ cPc' = "loop"
              ELSE returned(pushed, spans)
  /\ UNCHANGED <<cText, cMaxSize, cOverlap, dFacts, dOut, aTitle, aSections, aDoc,
                 uCall, uRet>>
  /\ UNCHANGED writeVars
  /\ UNCHANGED <<instruction, referenceText, gate>>
  /\ UNCHANGED pipeVars
  /\ UNCHANGED hostVars

\* fact lists: up to MaxFactList facts of a pool with the subjects 'vizz', 'vizy',
\* 'vixy' (each similar to the one before, the first and the last not similar), 'lens',
\* 'Vizz' and '', and lists of 11 and 12 facts with one-letter subjects, both ways round;
\* the scores of these facts compare in hundredths as they do in double precision
FactLists ==
  LET pool == {FactOf(<<118, 105, 122, 122>>, 2),
               [subject |-> <<118, 105, 122, 121>>, action |-> <<111, 107>>,
                details |-> <<100, 100, 100, 100, 49>>],
               FactOf(<<118, 105, 120, 121>>, 2),
               FactOf(<<108, 101, 110, 115>>, 2),
               FactOf(<<86, 105, 122, 122>>, 3),
               FactOf(<<>>, 4)}
      long == {[k \in 1..n |-> FactOf(<<96 + k>>, (k % 3) + 1)] : n \in {11, 12}}
  IN  SeqsUpTo(pool, MaxFactList)
      \cup long
      \cup {[k \in 1..Len(l) |-> l[Len(l) + 1 - k]] : l \in long}

\* a call of deduplicateAndRankFacts
DeduplicateAndRankFacts ==
  /\ pc = "idle" /\ UnitsIdle
  /\ \E facts \in FactLists :
       /\ dFacts' = facts
       /\ dOut' = [kind |-> "return", facts |-> deduplicateAndRankFacts(facts)]
  /\ UNCHANGED <<cText, cMaxSize, cOverlap, cStart, cChunks, cSpans, cPc,
                 aTitle, aSections, aDoc, uCall, uRet>>
  /\ UNCHANGED writeVars
  /\ UNCHANGED <<instruction, referenceText, gate>>
  /\ UNCHANGED pipeVars
  /\ UNCHANGED hostVars

\* a call of combineIntoFinalReport
CombineIntoFinalReport ==
  /\ pc = "idle" /\ UnitsIdle
  /\ \E title \in {TitlePlaceholder, <<86, 105, 122, 122>> \o TitleSuffix} :
       \E secs \in SectionLists :
         /\ aTitle' = title
         /\ aSections' = secs
         /\ aDoc' = [kind |-> "return", doc |-> combineIntoFinalReport(title, secs)]
  /\ UNCHANGED <<cText, cMaxSize, cOverlap, cStart, cChunks, cSpans, cPc, dFacts, dOut,
                 uCall, uRet>>
  /\ UNCHANGED writeVars
  /\ UNCHANGED <<instruction, referenceText, gate>>
  /\ UNCHANGED pipeVars
  /\ UNCHANGED hostVars

\* a call of writeSection, up to its return or its first service call
WriteSection ==
  /\ pc = "idle" /\ UnitsIdle
  /\ \E sectionTitle \in {<<44060, 50836>>, <<86, 105, 122, 122>>} :
       \E relevantFacts \in {[k \in 1..n |-> FactOf(<<86, 105, 122, 122>>, k)] :
                               n \in {0, 1, 4}} :
         /\ wTitle' = sectionTitle
         /\ wFacts' = relevantFacts
         /\ IF lacksFacts(relevantFacts)
            THEN /\ wOut' = [kind |-> "return", text |-> sectionTitle \o PlaceholderSuffix]
                 /\ UNCHANGED genVars
            ELSE /\ wOut' = wOut
                 /\ Invoke("write")
  /\ UNCHANGED <<pFacts, pOut>>
  /\ UNCHANGED pureVars
  /\ UNCHANGED <<instruction, referenceText, gate, genOut, failures, pc, chunks, chunkIdx,
                 allFacts, chunkLog, keyFacts, outline, secIdx, sections, events, result>>
  /\ UNCHANGED hostVars

\* a call of generateKoreanReportOutline, up to its service call: with no fact, with
\* one fact whose subject is empty, and with two ranked facts
GenerateKoreanReportOutline ==
  /\ pc = "idle" /\ UnitsIdle
  /\ \E facts \in {<<>>, <<FactOf(<<>>, 4)>>,
                    <<FactOf(<<108, 101, 110, 115>>, 2), FactOf(<<86, 105, 122, 122>>, 3)>>} :
       pFacts' = deduplicateAndRankFacts(facts)
  /\ pOut' = Pending
  /\ Invoke("plan")
  /\ UNCHANGED <<wTitle, wFacts, wOut>>
  /\ UNCHANGED pureVars
  /\ UNCHANGED <<instruction, referenceText, gate, genOut, failures, pc, chunks, chunkIdx,
                 allFacts, chunkLog, keyFacts, outline, secIdx, sections, events, result>>
  /\ UNCHANGED hostVars

\* a call of findRelevantFacts: a title with a Hangul and a Latin keyword, an English
\* title, a title that matches no fact; every list of up to MaxFactList facts with
\* three subjects and two lengths of details, and lists of 6 facts
FindRelevantFacts ==
  /\ pc = "idle" /\ UnitsIdle
  /\ LET pool == {FactOf(s, n) : s \in {<<86, 105, 122, 122>>, <<108, 101, 110, 115>>,
                                         <<97, 98, 99>>},
                                 n \in 1..2}
         six == <<FactOf(<<97, 98, 99>>, 1), FactOf(<<86, 105, 122, 122>>, 1),
                  FactOf(<<108, 101, 110, 115>>, 2), FactOf(<<97, 98, 99>>, 2),
                  FactOf(<<108, 101, 110, 115>>, 1), FactOf(<<86, 105, 122, 122>>, 2)>>
     IN  \E sectionTitle \in {<<44060, 50836, 32, 118, 105, 122, 122>>,
                              <<76, 101, 110, 115, 32, 100, 101, 116, 97, 105, 108, 115>>,
                              <<44060, 50836>>} :
           \E facts \in SeqsUpTo(pool, MaxFactList)
                         \cup {six, [k \in 1..6 |-> six[7 - k]]} :
             /\ uCall' = [fn |-> "findRelevantFacts", args |-> <<sectionTitle, facts>>]
             /\ uRet' = [kind |-> "return",
                         facts |-> findRelevantFacts(sectionTitle, facts)]
  /\ UNCHANGED <<cText, cMaxSize, cOverlap, cStart, cChunks, cSpans, cPc, dFacts, dOut,
                 aTitle, aSections, aDoc>>
  /\ UNCHANGED writeVars
  /\ UNCHANGED <<instruction, referenceText, gate>>
  /\ UNCHANGED pipeVars
  /\ UNCHANGED hostVars

\* a call of areFactsSimilar: every pair of subjects over 'a', 'b', 'A' up to
\* MaxSubjectLen, and 'a' repeated 4, 7 or 10 times against the same with its
\* last k letters replaced by 'z' or left out; actions and details differ
AreFactsSimilar ==
  /\ pc = "idle" /\ UnitsIdle
  /\ LET short == SeqsUpTo({97, 98, 65}, MaxSubjectLen)
         pairs == (short \X short)
                  \cup {<<Rep(97, n), Rep(97, n - k) \o Rep(122, k)>> :
                          n \in {4, 7, 10}, k \in 0..7}
                  \cup {<<Rep(97, n - k), Rep(97, n)>> : n \in {4, 7, 10}, k \in 0..4}
     IN  \E pair \in pairs : \E n \in 1..2 :
           LET fact1 == FactOf(pair[1], 1)
               fact2 == [subject |-> pair[2], action |-> Rep(110, n), details |-> Rep(101, n)]
           IN  /\ uCall' = [fn |-> "areFactsSimilar", args |-> <<fact1, fact2>>]
               /\ uRet' = [kind |-> "return", value |-> areFactsSimilar(fact1, fact2)]
  /\ UNCHANGED <<cText, cMaxSize, cOverlap, cStart, cChunks, cSpans, cPc, dFacts, dOut,
                 aTitle, aSections, aDoc>>
  /\ UNCHANGED writeVars
  /\ UNCHANGED <<instruction, referenceText, gate>>
  /\ UNCHANGED pipeVars
  /\ UNCHANGED hostVars

NextCalls ==
  \/ ChunkText
  \/ ChunkIteration
  \/ DeduplicateAndRankFacts
  \/ CombineIntoFinalReport
  \/ WriteSection
  \/ GenerateKoreanReportOutline
  \/ FindRelevantFacts
  \/ AreFactsSimilar
  \/ ServiceSucceeds
  \/ ServiceFails
  \/ AttemptSucceeded
  \/ AttemptFailed
  \/ DelayElapsed

SpecCalls == InitCalls /\ [][NextCalls]_vars

----------------------------------------------------------------------------
(* Specification of the host: ChatInterface.handleMultiTurnGeneration around one run *)

\* String.prototype.split(/(?=^#)/gm), scanning from index `from`: a cut before every
\* '#' that starts a line, but none at the start of the string
RECURSIVE splitBeforeHeaders(_, _)
splitBeforeHeaders(s, from) ==
  LET cuts == {k \in (from + 1)..Len(s) :
                 k > 1 /\ s[k] = 35 /\ s[k - 1] \in {10, 13, 8232, 8233}}
  IN  IF cuts = {} THEN <<SubSeq(s, from, Len(s))>>
      ELSE <<SubSeq(s, from, MinOf(cuts) - 1)>> \o splitBeforeHeaders(s, MinOf(cuts))

\* String.prototype.split(/\n\s*\n/), scanning from index `from`: a match runs from a
\* line feed to the last line feed of the white space that follows it
RECURSIVE splitOnBlankLines(_, _)
splitOnBlankLines(s, from) ==
  LET lastFeed(i) == MaxOf({j \in i..(spacesEnd(s, i) - 1) : s[j] = 10})
      starts == {i \in from..Len(s) : s[i] = 10 /\ lastFeed(i) > i}
  IN  IF starts = {} THEN <<SubSeq(s, from, Len(s))>>
      ELSE <<SubSeq(s, from, MinOf(starts) - 1)>>
           \o splitOnBlankLines(s, lastFeed(MinOf(starts)) + 1)

\* a parse that splits before the headers only
parseReportSectionsByHeader(report) ==
  LET kept == SelectSeq(splitBeforeHeaders(report, 1),
                        LAMBDA section : Len(trim(section)) > 0)
  IN  [k \in 1..Len(kept) |-> trim(kept[k])]

parseReportSections(report) ==
  LET RECURSIVE flat(_)
      flat(pieces) == IF pieces = <<>> THEN <<>>
                      ELSE splitOnBlankLines(Head(pieces), 1) \o flat(Tail(pieces))
      kept == SelectSeq(flat(splitBeforeHeaders(report, 1)),
                        LAMBDA section : Len(trim(section)) > 0)
  IN  [k \in 1..Len(kept) |-> trim(kept[k])]

\* insertReportIntoEditor: the next editor.addBlock and the delay after it, or, after
\* the last one, the success message of handleMultiTurnGeneration
InsertBlock ==
  /\ pc = "complete" /\ hostPc \in {"awaiting", "inserting"}
  /\ LET secs == IF hostPc = "awaiting" THEN parseReportSections(result.doc)
                 ELSE insertSections
     IN  /\ insertSections' = secs
         /\ IF Len(editorBlocks) < Len(secs)
            THEN /\ editorBlocks' = Append(editorBlocks, trim(secs[Len(editorBlocks) + 1]))
                 /\ hostPc' = "inserting"
            ELSE /\ editorBlocks' = editorBlocks
                 /\ hostPc' = "succeeded"
  /\ UNCHANGED cancelRequested
  /\ UNCHANGED chatVars
  /\ UNCHANGED inputVars
  /\ UNCHANGED pipeVars
  /\ UNCHANGED unitVars

\* the catch block of handleMultiTurnGeneration
ReportFailed ==
  /\ pc = "error" /\ hostPc = "awaiting"
  /\ hostPc' = "failed"
  /\ UNCHANGED <<cancelRequested, editorBlocks, insertSections>>
  /\ UNCHANGED chatVars
  /\ UNCHANGED inputVars
  /\ UNCHANGED pipeVars
  /\ UNCHANGED unitVars

\* the host asks for the run to be cancelled while it is under way; generateKoreanReport
\* takes no signal and reads no state of the host
RequestCancellation ==
  /\ pc \in {"extracting", "planning", "writing"} /\ ~cancelRequested
  /\ cancelRequested' = TRUE
  /\ UNCHANGED <<editorBlocks, insertSections, hostPc>>
  /\ UNCHANGED chatVars
  /\ UNCHANGED inputVars
  /\ UNCHANGED pipeVars
  /\ UNCHANGED unitVars

NextHost ==
  \/ GenerateKoreanReport
  \/ ServiceSucceeds
  \/ ServiceFails
  \/ AttemptSucceeded
  \/ AttemptFailed
  \/ DelayElapsed
  \/ InsertBlock
  \/ ReportFailed
  \/ RequestCancellation

\* the host's runs: on no reference text, on a short one and on one window of text
InitHost ==
  /\ instruction = TestInstruction
  /\ referenceText \in {<<>>, SmallRef, PlainText(1)}
  /\ gate = "unset"
  /\ PipeIdle
  /\ UnitsIdle
  /\ HostIdle

SpecHost == InitHost /\ [][NextHost]_vars

----------------------------------------------------------------------------
(* Specification of the chat host: ChatInterface.sendMessage handling one message *)

\* a path that starts handleMultiTurnGeneration whenever the reference is large
composerPathByReference(instr, ref) ==
  IF hasLargeReference(ref) THEN "multi" ELSE "single"

\* handleComposerCommand: if (shouldUseMultiTurn(instruction, referenceContext))
\* handleMultiTurnGeneration and return, else the single-turn approach
composerPath(instr, ref) ==
  IF shouldUseMultiTurn(instr, ref) THEN "multi" ELSE "single"

\* a guard that looks at the content only
returnsAtOnceOff(empty) == empty

\* if (!content || this.isProcessing) return
returnsAtOnce(empty) == empty \/ isProcessing

\* a call of sendMessage with the input box empty or not and a content that is a
\* composer command or not: it returns at once, or sets isProcessing and goes as far
\* as the call of the path that handles the message
SendMessage ==
  /\ chatPc # "done"
  /\ \E empty \in BOOLEAN, composer \in BOOLEAN :
       IF returnsAtOnce(empty)
       THEN /\ isProcessing /\ dropped < MaxDropped
            /\ dropped' = dropped + 1
            /\ UNCHANGED <<isProcessing, chatPc, paths, gate>>
       ELSE LET path == IF composer THEN composerPath(instruction, referenceText)
                        ELSE "chat"
            IN  /\ isProcessing' = TRUE
                /\ chatPc' = path
                /\ paths' = Append(paths, path)
                /\ gate' = IF ~composer THEN gate
                           ELSE IF path = "multi" THEN "true" ELSE "false"
                /\ UNCHANGED dropped
  /\ UNCHANGED <<instruction, referenceText>>
  /\ UNCHANGED <<cancelRequested, editorBlocks, insertSections, hostPc>>
  /\ UNCHANGED pipeVars
  /\ UNCHANGED unitVars

\* handleMultiTurnGeneration calls generateKoreanReport
HandleMultiTurnGeneration ==
  /\ chatPc = "multi" /\ hostPc = "awaiting"
  /\ GenerateKoreanReport

\* the end of sendMessage: the awaited handler has returned or thrown, and finally
\* this.isProcessing = false. streamAIContentIntoEditor and generateStreamFromChat
\* resolve or reject; handleMultiTurnGeneration has shown its success or error message
SendMessageReturns ==
  /\ \/ chatPc \in {"single", "chat"}
     \/ chatPc = "multi" /\ hostPc \in {"succeeded", "failed"}
  /\ isProcessing' = FALSE
  /\ chatPc' = "done"
  /\ UNCHANGED <<paths, dropped>>
  /\ UNCHANGED <<cancelRequested, editorBlocks, insertSections, hostPc>>
  /\ UNCHANGED inputVars
  /\ UNCHANGED pipeVars
  /\ UNCHANGED unitVars

NextChat ==
  \/ SendMessage
  \/ HandleMultiTurnGeneration
  \/ SendMessageReturns
  \/ ServiceSucceeds
  \/ ServiceFails
  \/ AttemptSucceeded
  \/ AttemptFailed
  \/ DelayElapsed
  \/ InsertBlock
  \/ ReportFailed

\* the instruction extracted from the message and the reference context of the
\* message: a Korean report request, an English one, Hangul without a keyword; no
\* reference, a short one, one of 800 characters, one of 801 characters that is blank
\* past its first 400 (one chunk), a blank one of 801 characters
InitChat ==
  /\ instruction \in {TestInstruction, <<44032>>} \cup {i \in Instructions : Len(i) = 40}
  /\ referenceText \in {<<>>, SmallRef, Rep(120, 800), Rep(120, 400) \o Rep(32, 401),
                        Rep(32, 801)}
  /\ gate = "unset"
  /\ PipeIdle
  /\ UnitsIdle
  /\ HostIdle

SpecChat == InitChat /\ [][NextChat]_vars

----------------------------------------------------------------------------
(* Claims about the gate *)

Keywords == {KwReport, KwBogoseo, KwDraft, KwWrite}

OccursAt(s, kw, k) ==
  /\ k + Len(kw) - 1 <= Len(s)
  /\ \A j \in 1..Len(kw) : s[k + j - 1] = kw[j]

\* C1: shouldUseMultiTurn returns true exactly when the instruction holds a Hangul
\* character, the instruction holds one of the four keywords, the reference text is
\* longer than 800 characters and the reference text has a non-blank character; in
\* particular a reference text of exactly 800 characters or a blank one of any length
\* gives false.
C1_GateIffAllFour ==
  gate # "unset" =>
    /\ gate \in {"true", "false"}
    /\ gate = "true" <=>
         /\ \E k \in 1..Len(instruction) : IsHangul(instruction[k])
         /\ \E kw \in Keywords : \E k \in 1..Len(instruction) : OccursAt(instruction, kw, k)
         /\ Len(referenceText) > 800
         /\ \E k \in 1..Len(referenceText) : ~IsSpace(referenceText[k])
    /\ (Len(referenceText) = 800 => gate = "false")
    /\ ((\A k \in 1..Len(referenceText) : referenceText[k] = 32) => gate = "false")

C1_Witness ==
  /\ gate = "true"
  /\ Len(referenceText) = 801
  /\ instruction = KwDraft

----------------------------------------------------------------------------
(* Claims about one run of generateKoreanReport *)

\* the step ends the active invocation of generateWithRetry: it returns or throws
InvocationEnds == gpc # "none" /\ (gpc' = "none" \/ attempts' = <<Pending>>)

AllFailed(log) == \A k \in 1..Len(log) : log[k].kind = "fail"

Stages(evs) == [k \in 1..Len(evs) |-> evs[k].stage]

\* fractions <<numerator, denominator>> with positive denominators
FracLeq(a, b) == a[1] * b[2] <= b[1] * a[2]
FracEq(a, b) == a[1] * b[2] = b[1] * a[2]

RECURSIVE FlattenFacts(_)
FlattenFacts(log) ==
  IF log = <<>> THEN <<>> ELSE Head(log).facts \o FlattenFacts(Tail(log))

ExtractionOver == pc \in {"planning", "writing", "complete", "error"}

\* C2: one invocation of generateWithRetry issues at most maxRetries + 1 service calls;
\* every call but the latest one has failed, so no call follows a success; a
\* successful call ends the invocation at once, returning that call's text; the
\* invocation throws only when maxRetries + 1 calls have been issued and all failed.
C2_RetryBound ==
  /\ [](/\ Len(attempts) <= maxRetries + 1
        /\ AllFailed(SubSeq(attempts, 1, Len(attempts) - 1)))
  /\ [][/\ reply.kind = "ok" =>
             /\ InvocationEnds
             /\ genOut' = [kind |-> "return", who |-> caller, text |-> reply.text]
        /\ (InvocationEnds /\ reply.kind # "ok") =>
             /\ genOut'.kind = "throw"
             /\ Len(attempts) = maxRetries + 1
             /\ AllFailed(attempts)]_vars

C2_Witness ==
  /\ pc = "complete"
  /\ genOut.kind = "return"
  /\ Len(attempts) = 3
  /\ attempts[1].kind = "fail" /\ attempts[2].kind = "fail"
  /\ attempts[3] = [kind |-> "ok", text |-> genOut.text]

\* C3: when generateWithRetry throws, the error thrown is the error of the call that
\* failed last, whatever the errors of the earlier calls were.
C3_LastErrorSurfaces ==
  [][(InvocationEnds /\ reply.kind = "fail") =>
       /\ genOut'.kind = "throw"
       /\ genOut'.error = reply.error
       /\ genOut'.error = attempts[Len(attempts)].error]_vars

C3_Witness ==
  /\ pc = "error"
  /\ genOut = [kind |-> "throw", who |-> "outline", error |-> "E2"]
  /\ attempts = <<[kind |-> "fail", error |-> "E1"], [kind |-> "fail", error |-> "E1"],
                  [kind |-> "fail", error |-> "E2"]>>
  /\ result = [kind |-> "throw", error |-> "E2"]

\* C4: a chunk whose extraction failed does not end processReference: while chunks are
\* extracted the facts gathered are those of the chunks handled so far, a failed chunk
\* adding none; once extraction is over every chunk has been handled, and the facts of
\* the chunks that did not fail are what deduplication received.
C4_ChunkFailureTolerated ==
  /\ pc = "extracting" =>
       /\ Len(chunkLog) = chunkIdx /\ chunkIdx < Len(chunks)
  /\ (ExtractionOver /\ chunks # <<>>) =>
       /\ Len(chunkLog) = Len(chunks)
       /\ \A k \in 1..Len(keyFacts) : \E j \in 1..Len(allFacts) :
            /\ keyFacts[k].subject = allFacts[j].subject
            /\ keyFacts[k].action = allFacts[j].action
            /\ keyFacts[k].details = allFacts[j].details
       /\ (allFacts # <<>> => keyFacts # <<>>)
  /\ \A k \in 1..Len(chunkLog) : chunkLog[k].failed => chunkLog[k].facts = <<>>
  /\ allFacts = FlattenFacts(chunkLog)

C4_Witness ==
  /\ pc = "planning"
  /\ Len(chunks) = 2
  /\ chunkLog[1].failed /\ ~chunkLog[2].failed
  /\ Len(keyFacts) = 2

\* C5: when extraction is over and no chunk has given a fact, the run is in its error
\* outcome with the no-facts error: no call is in flight or was issued for the outline
\* or a section, the only events are processing and error, and no document is returned.
C5_NoFactsIsFatal ==
  (ExtractionOver /\ allFacts = <<>>) =>
    /\ pc = "error"
    /\ result = [kind |-> "throw", error |-> NoFactsError]
    /\ Stages(events) = <<"processing", "error">>
    /\ events[2].error = NoFactsError
    /\ inflight = 0 /\ gpc = "none" /\ caller = "none"
    /\ genOut.kind # "none" => genOut.who = "extract"
    /\ outline = NoOutline /\ sections = <<>>

C5_Witness ==
  /\ pc = "error"
  /\ Len(chunks) = 2 /\ Len(chunkLog) = 2
  /\ chunkLog[1].failed /\ ~chunkLog[2].failed
  /\ allFacts = <<>>

\* C6: when the call for the outline or for a section has thrown, the run is in its
\* error outcome: the last event is the error event of that error, the run throws that
\* error and returns no document, no finalizing or complete event was emitted, nothing
\* is in flight and no section was written after the failure.
C6_StageFailureIsFatal ==
  (genOut.kind = "throw" /\ genOut.who \in {"outline", "section"}) =>
    /\ pc = "error"
    /\ result = [kind |-> "throw", error |-> genOut.error]
    /\ events[Len(events)] = [stage |-> "error", progress |-> <<0, 1>>,
                              error |-> genOut.error]
    /\ \A k \in 1..Len(events) : events[k].stage \notin {"finalizing", "complete"}
    /\ inflight = 0 /\ gpc = "none"
    /\ Len(sections) = secIdx
    /\ genOut.who = "outline" => sections = <<>>
    /\ genOut.who = "section" => Len(sections) < Len(outline.sections)

C6_Witness ==
  /\ pc = "error"
  /\ genOut.kind = "throw" /\ genOut.who = "section"
  /\ Len(sections) = 2 /\ Len(outline.sections) = 4

\* the events C7 expects of a successful run over n sections
ExpectedStages(n) ==
  <<"processing", "planning">> \o [k \in 1..n |-> "writing"] \o <<"finalizing", "complete">>

ExpectedProgress(n, k) ==
  IF k = 1 THEN <<10, 1>>
  ELSE IF k = 2 THEN <<30, 1>>
  ELSE IF k <= n + 2 THEN <<40 * n + 50 * (k - 3), n>>
  ELSE IF k = n + 3 THEN <<90, 1>>
  ELSE <<100, 1>>

\* C7: a successful run over an outline of N sections has emitted exactly processing
\* (10), planning (30), writing (40 + 50 * i / N) for i = 0..N-1, finalizing (90) and
\* complete (100), in this order; the processing event is the only event when a chunk
\* is extracted, the planning event is the last one when the outline is requested, and
\* the writing event of section i is the last one when section i is requested.
C7_SuccessEventSequence ==
  /\ pc = "complete" =>
       LET n == Len(outline.sections)
       IN  /\ Stages(events) = ExpectedStages(n)
           /\ \A k \in 1..Len(events) : FracEq(events[k].progress, ExpectedProgress(n, k))
           /\ \A k \in 1..Len(events) : events[k].error = "null"
  /\ caller = "extract" => Stages(events) = <<"processing">>
  /\ caller = "outline" => Stages(events) = <<"processing", "planning">>
  /\ caller = "section" =>
       /\ Len(events) = 3 + secIdx
       /\ events[Len(events)].stage = "writing"
       /\ FracEq(events[Len(events)].progress,
                 <<40 * Len(outline.sections) + 50 * secIdx, Len(outline.sections)>>)

C7_Witness ==
  /\ pc = "complete"
  /\ Len(outline.sections) = 3
  /\ Len(events) = 7
  /\ events[4].progress = <<170, 3>>

\* C8 as stated: in every run each event's progress is at least that of the event
\* before it, a successful run ends with progress 100 and a failed run ends with an
\* error event.
C8_ProgressNonDecreasing ==
  /\ \A k \in 1..(Len(events) - 1) : FracLeq(events[k].progress, events[k + 1].progress)
  /\ pc = "complete" => FracEq(events[Len(events)].progress, <<100, 1>>)
  /\ pc = "error" => events[Len(events)].stage = "error"

\* C8 amended: the progress of every event other than the error event is at least that
\* of the event before it; a successful run ends with the complete event at 100; a
\* failed run ends with its only error event, whose progress is 0 and so below that of
\* the event before it.
C8_ProgressNonDecreasingUntilError ==
  /\ \A k \in 1..(Len(events) - 1) :
       events[k + 1].stage # "error" =>
         FracLeq(events[k].progress, events[k + 1].progress)
  /\ pc = "complete" =>
       /\ events[Len(events)].stage = "complete"
       /\ FracEq(events[Len(events)].progress, <<100, 1>>)
  /\ pc = "error" =>
       /\ events[Len(events)].stage = "error"
       /\ FracEq(events[Len(events)].progress, <<0, 1>>)
       /\ Len(events) >= 2
       /\ ~FracLeq(events[Len(events) - 1].progress, events[Len(events)].progress)
       /\ \A k \in 1..(Len(events) - 1) : events[k].stage # "error"

C8_Witness ==
  /\ pc = "error"
  /\ Stages(events) = <<"processing", "planning", "writing", "writing", "error">>
  /\ events[4].progress = <<130, 2>>

TerminalEvents(evs) == {k \in 1..Len(evs) : evs[k].stage \in {"complete", "error"}}

\* C9: at most one complete or error event is emitted, and it is the last event; the
\* run has ended exactly when that event is there; with complete the run returns the
\* document, with error it throws the error the event carries; nothing is in flight
\* then, and no step follows, so no call is issued after it.
C9_TerminalEvents ==
  /\ [](/\ Cardinality(TerminalEvents(events)) <= 1
        /\ TerminalEvents(events) \subseteq {Len(events)}
        /\ (TerminalEvents(events) # {}) <=> (result.kind # "none")
        /\ (TerminalEvents(events) # {}) <=> (pc \in {"complete", "error"})
        /\ pc = "complete" =>
             /\ events[Len(events)].stage = "complete"
             /\ result.kind = "value"
             /\ result.doc = combineIntoFinalReport(outline.title, sections)
             /\ Len(sections) = Len(outline.sections)
        /\ pc = "error" =>
             /\ events[Len(events)].stage = "error"
             /\ result = [kind |-> "throw", error |-> events[Len(events)].error]
             /\ (result.error = NoFactsError \/ genOut = [kind |-> "throw", who |-> genOut.who,
                                                          error |-> result.error])
        /\ pc \in {"complete", "error"} => (inflight = 0 /\ gpc = "none"))
  /\ [][TerminalEvents(events) = {}]_vars

C9_Witness ==
  /\ pc = "complete"
  /\ failures = 2
  /\ Len(sections) = 4
  /\ result.kind = "value"

\* the calls of the current invocation that are not settled
PendingCalls == {k \in 1..Len(attempts) : attempts[k] = Pending}

\* C10: at most one service call is in flight; while it is, the invocation awaits it
\* and issues nothing; the outline is requested only when every chunk has been
\* handled, and a section only when the sections before it have been written.
C10_OneCallInFlight ==
  /\ inflight <= 1
  /\ Cardinality(PendingCalls) = inflight
  /\ inflight = 1 => (gpc = "awaiting" /\ reply = NoReply)
  /\ caller = "extract" => (pc = "extracting" /\ Len(chunkLog) = chunkIdx)
  /\ caller = "outline" => (pc = "planning" /\ Len(chunkLog) = Len(chunks))
  /\ caller = "section" =>
       (pc = "writing" /\ Len(chunkLog) = Len(chunks) /\ Len(sections) = secIdx)

C10_Witness ==
  /\ inflight = 1
  /\ caller = "section"
  /\ secIdx = 1
  /\ retryI = 1

----------------------------------------------------------------------------
(* Reading an assembled document back *)

\* the positions where a line starts with '## '
HeadingStarts(doc) ==
  {k \in 1..(Len(doc) - 2) :
     /\ doc[k] = 35 /\ doc[k + 1] = 35 /\ doc[k + 2] = 32
     /\ (k = 1 \/ doc[k - 1] = 10)}

\* the k-th smallest element of a set of numbers
NthOf(S, k) == CHOOSE x \in S : Cardinality({y \in S : y < x}) = k - 1

\* where the footer starts: the last '---' line
FooterStart(doc) ==
  MaxOf({k \in 1..Len(doc) : k + Len(FooterHead) - 1 <= Len(doc)
                              /\ SubSeq(doc, k, k + Len(FooterHead) - 1) = FooterHead})

\* the text of the heading line that starts at p
HeadingAt(doc, p) ==
  SubSeq(doc, p + 3, MinOf({j \in (p + 3)..Len(doc) : doc[j] = 10}) - 1)

\* the text between the blank line after the heading at p and the blank line before q
ContentAt(doc, p, q) ==
  SubSeq(doc, MinOf({j \in (p + 3)..Len(doc) : doc[j] = 10}) + 2, q - 3)

\* C11: sections are written one at a time, each appended after those before it, and
\* the k-th section written carries the k-th outline heading; section k + 1 is requested
\* only when exactly k sections are written; the returned document has exactly one
\* '## ' heading per outline section, and its k-th heading and the content below it are
\* the k-th outline heading and the content written for it.
C11_SectionsInOutlineOrder ==
  /\ [](/\ Len(sections) <= Len(outline.sections)
        /\ \A k \in 1..Len(sections) : sections[k].title = outline.sections[k]
        /\ caller = "section" => Len(sections) = secIdx
        /\ pc = "complete" =>
             LET doc == result.doc
                 hs == HeadingStarts(doc)
                 n == Len(outline.sections)
             IN  /\ Cardinality(hs) = n
                 /\ Len(sections) = n
                 /\ \A k \in 1..n :
                      LET p == NthOf(hs, k)
                          q == IF k < n THEN NthOf(hs, k + 1) ELSE FooterStart(doc)
                      IN  /\ HeadingAt(doc, p) = outline.sections[k]
                          /\ ContentAt(doc, p, q) = sections[k].content)
  /\ [][\/ sections' = sections
        \/ /\ Len(sections') = Len(sections) + 1
           /\ SubSeq(sections', 1, Len(sections)) = sections]_vars

C11_Witness ==
  /\ pc = "complete"
  /\ Len(outline.sections) = 4
  /\ sections[1].content # sections[2].content
  /\ sections[1].title # sections[2].title

\* the number a string of decimal digits stands for
RECURSIVE DecimalValue(_)
DecimalValue(digits) ==
  IF digits = <<>> THEN 0
  ELSE 10 * DecimalValue(SubSeq(digits, 1, Len(digits) - 1)) + (digits[Len(digits)] - 48)

\* digits is the decimal numeral of n, without leading zeros
ReadsAs(digits, n) ==
  /\ Len(digits) >= 1
  /\ \A k \in 1..Len(digits) : digits[k] \in 48..57
  /\ (Len(digits) > 1 => digits[1] # 48)
  /\ DecimalValue(digits) = n

\* C12: for a list of N sections whose fact lists hold F facts in all, the document
\* returned by combineIntoFinalReport ends with the footer whose first number reads N
\* and whose second number reads F.
C12_FooterCounts ==
  aDoc.kind = "return" =>
    LET doc == aDoc.doc
        N == Len(aSections)
        F == Cardinality({<<k, j>> \in (1..N) \X (1..4) : j <= Len(aSections[k].facts)})
    IN  \E a \in 1..2 : \E b \in 1..2 :
          LET at == Len(doc) - (Len(FooterHead) + a + Len(FooterMid) + b + Len(FooterTail))
          IN  /\ at >= 0
              /\ SubSeq(doc, at + 1, at + Len(FooterHead)) = FooterHead
              /\ ReadsAs(SubSeq(doc, at + Len(FooterHead) + 1, at + Len(FooterHead) + a), N)
              /\ SubSeq(doc, at + Len(FooterHead) + a + 1,
                         at + Len(FooterHead) + a + Len(FooterMid)) = FooterMid
              /\ ReadsAs(SubSeq(doc, at + Len(FooterHead) + a + Len(FooterMid) + 1,
                                Len(doc) - Len(FooterTail)), F)
              /\ SubSeq(doc, Len(doc) - Len(FooterTail) + 1, Len(doc)) = FooterTail

C12_Witness ==
  /\ aDoc.kind = "return"
  /\ Len(aSections) = 3
  /\ Len(aSections[1].facts) = 4 /\ Len(aSections[2].facts) = 4
  /\ Len(aSections[3].facts) = 3

\* C13: writeSection called with no facts has returned, without any step in between,
\* the section title followed by the fixed insufficient-information text, and has
\* issued no service call; called with one or more facts it issues a service call
\* before anything else and has issued at least one, all of them settled, when it ends.
C13_PlaceholderWithoutCall ==
  /\ (wTitle # <<>> /\ wFacts = <<>>) =>
       /\ wOut = [kind |-> "return", text |-> wTitle \o PlaceholderSuffix]
       /\ attempts = <<>> /\ inflight = 0 /\ failures = 0
       /\ gpc = "none" /\ genOut = NoResult
  /\ (wTitle # <<>> /\ wFacts # <<>>) =>
       /\ Len(attempts) >= 1
       /\ wOut.kind # "none" =>
            /\ \A k \in 1..Len(attempts) : attempts[k].kind \in {"ok", "fail"}
            /\ wOut.kind = "return" => attempts[Len(attempts)].kind = "ok"
            /\ wOut.kind = "throw" => Len(attempts) = maxRetries + 1

C13_Witness ==
  /\ wFacts = <<>>
  /\ wOut.kind = "return"
  /\ Len(wOut.text) > Len(PlaceholderSuffix)

----------------------------------------------------------------------------
(* Claims about deduplicateAndRankFacts *)

\* a returned fact without its score
Unscored(f) == [subject |-> f.subject, action |-> f.action, details |-> f.details]

UnscoredSet(fs) == {Unscored(fs[k]) : k \in 1..Len(fs)}

\* the fact at index k survives the scan: no surviving fact before it is similar to it
RECURSIVE Survives(_, _)
Survives(facts, k) ==
  ~\E j \in 1..(k - 1) : Survives(facts, j) /\ areFactsSimilar(facts[k], facts[j])

Survivors(facts) == {k \in 1..Len(facts) : Survives(facts, k)}

\* the lists facts is compared with: every permutation of a short list, and the
\* reversal and the rotations of a long one
Rearranged(facts) ==
  LET n == Len(facts)
  IN  IF n <= 4
      THEN {[k \in 1..n |-> facts[p[k]]] : p \in Permutations(1..n)}
      ELSE {[k \in 1..n |-> facts[n + 1 - k]]}
           \cup {[k \in 1..n |-> facts[((k + r - 1) % n) + 1]] : r \in 1..(n - 1)}

\* C14: deduplicateAndRankFacts applied to the list it returned gives that list again,
\* the same facts with the same scores in the same order.
C14_DedupIdempotent ==
  dOut.kind = "return" => deduplicateAndRankFacts(dOut.facts) = dOut.facts

C14_Witness ==
  /\ dOut.kind = "return"
  /\ Len(dFacts) = 3 /\ Len(dOut.facts) = 2
  /\ Unscored(dOut.facts[1]) = dFacts[3]
  /\ dOut.facts[1].relevanceScore > dOut.facts[2].relevanceScore

\* C15: a fact of the input survives exactly when no surviving fact before it in input
\* order has a similar subject; every returned fact is a survivor, and up to 10
\* survivors are all returned, so a later fact similar to a survivor is never returned
\* in its place, whatever its score.
C15_FirstSeenWins ==
  dOut.kind = "return" =>
    LET kept == Survivors(dFacts)
    IN  /\ UnscoredSet(dOut.facts) \subseteq {dFacts[k] : k \in kept}
        /\ Len(dOut.facts) = Min2(10, Cardinality(kept))
        /\ Cardinality(kept) <= 10 => UnscoredSet(dOut.facts) = {dFacts[k] : k \in kept}
        /\ \A k \in 1..Len(dFacts) :
             (\E j \in 1..(k - 1) : j \in kept /\ dFacts[j] # dFacts[k]
                                    /\ areFactsSimilar(dFacts[k], dFacts[j]))
             => dFacts[k] \notin UnscoredSet(dOut.facts)

\* 'vizz' first, then the higher-scoring 'vizy': only 'vizz' is returned
C15_Witness ==
  /\ dOut.kind = "return"
  /\ Len(dFacts) = 2
  /\ calculateRelevanceScore(dFacts[2]) > calculateRelevanceScore(dFacts[1])
  /\ areFactsSimilar(dFacts[2], dFacts[1])
  /\ UnscoredSet(dOut.facts) = {dFacts[1]}

\* C16 as stated: the set of facts returned is the same for the input list and for
\* every rearrangement of it.
C16_SetOrderIndependent ==
  dOut.kind = "return" =>
    \A other \in Rearranged(dFacts) :
      UnscoredSet(deduplicateAndRankFacts(other)) = UnscoredSet(dOut.facts)

\* C16 amended: when no two different facts of the list have similar subjects and the
\* list holds at most 10 different facts, the set of facts returned is the same for
\* the input list and for every rearrangement of it.
C16_SetOrderIndependentWithoutCollision ==
  (/\ dOut.kind = "return"
   /\ \A i, j \in 1..Len(dFacts) :
        dFacts[i] # dFacts[j] => ~areFactsSimilar(dFacts[i], dFacts[j])
   /\ Cardinality({dFacts[k] : k \in 1..Len(dFacts)}) <= 10) =>
    \A other \in Rearranged(dFacts) :
      UnscoredSet(deduplicateAndRankFacts(other)) = UnscoredSet(dOut.facts)

C16_Witness ==
  /\ dOut.kind = "return"
  /\ Len(dFacts) = 3
  /\ Len(dOut.facts) = 2
  /\ dFacts[1] = dFacts[3]
  /\ ~areFactsSimilar(dFacts[1], dFacts[2])
  /\ Unscored(dOut.facts[1]) = dFacts[2]

\* C17: the returned list holds at most 10 facts, each with the score of its subject
\* and details, the scores never rise from one fact to the next, and a surviving fact
\* that is not returned scores no higher than any returned fact.
C17_TopTenByScore ==
  dOut.kind = "return" =>
    /\ Len(dOut.facts) <= 10
    /\ \A i \in 1..Len(dOut.facts) :
         dOut.facts[i].relevanceScore = calculateRelevanceScore(Unscored(dOut.facts[i]))
    /\ \A i \in 1..(Len(dOut.facts) - 1) :
         dOut.facts[i].relevanceScore >= dOut.facts[i + 1].relevanceScore
    /\ \A k \in Survivors(dFacts) :
         dFacts[k] \notin UnscoredSet(dOut.facts) =>
           \A i \in 1..Len(dOut.facts) :
             calculateRelevanceScore(dFacts[k]) <= dOut.facts[i].relevanceScore

C17_Witness ==
  /\ dOut.kind = "return"
  /\ Len(dFacts) = 12
  /\ Len(dOut.facts) = 10
  /\ dOut.facts[1].relevanceScore > dOut.facts[10].relevanceScore
  /\ \E k \in Survivors(dFacts) : dFacts[k] \notin UnscoredSet(dOut.facts)

\* C18: two returned facts with the same score stand in the order in which they first
\* occur in the input.
C18_TiesInFirstSeenOrder ==
  dOut.kind = "return" =>
    \A i, j \in 1..Len(dOut.facts) :
      (i < j /\ dOut.facts[i].relevanceScore = dOut.facts[j].relevanceScore) =>
        MinOf({k \in 1..Len(dFacts) : dFacts[k] = Unscored(dOut.facts[i])})
          < MinOf({k \in 1..Len(dFacts) : dFacts[k] = Unscored(dOut.facts[j])})

C18_Witness ==
  /\ dOut.kind = "return"
  /\ Len(dFacts) = 3 /\ Len(dOut.facts) = 3
  /\ dOut.facts[2].relevanceScore = dOut.facts[3].relevanceScore
  /\ Unscored(dOut.facts[2]) = dFacts[1]
  /\ Unscored(dOut.facts[3]) = dFacts[3]
  /\ dOut.facts[2].subject # dOut.facts[3].subject

----------------------------------------------------------------------------
(* Claims about chunkText *)

\* 0 <= overlap < maxSize
ValidSizes == cMaxSize >= 1 /\ cOverlap >= 0 /\ cOverlap < cMaxSize

\* position p of the text (0-based) lies inside one of the chunks cut so far or, once
\* chunkText has returned, inside one of the chunks returned
Covered(p) == \E k \in 1..Len(cSpans) : cSpans[k][1] <= p /\ p < cSpans[k][2]

\* C19 as stated: when chunkText has returned for valid sizes, every character position
\* of the text lies inside a returned chunk.
C19_EveryPositionCovered ==
  (cPc = "done" /\ ValidSizes) => \A p \in 0..(Len(cText) - 1) : Covered(p)

\* C19 amended: for valid sizes the chunks are cut without a gap (the first starts at 0,
\* each next one starts no later than the one before ends, and the next window starts
\* no later than the last cut); when chunkText has returned, every returned chunk is
\* the text at its place and every position that holds a character other than white
\* space lies inside a returned chunk.
C19_NonBlankPositionsCovered ==
  /\ (cPc = "loop" /\ ValidSizes /\ cSpans # <<>>) =>
       /\ cSpans[1][1] = 0
       /\ \A k \in 1..(Len(cSpans) - 1) : cSpans[k + 1][1] <= cSpans[k][2]
       /\ cStart <= cSpans[Len(cSpans)][2]
       /\ \A k \in 1..Len(cSpans) :
            cChunks[k] = SubSeq(cText, cSpans[k][1] + 1, cSpans[k][2])
  /\ (cPc = "done" /\ ValidSizes) =>
       /\ Len(cSpans) = Len(cChunks)
       /\ \A k \in 1..Len(cSpans) :
            cChunks[k] = SubSeq(cText, cSpans[k][1] + 1, cSpans[k][2])
       /\ \A p \in 0..(Len(cText) - 1) : ~IsSpace(cText[p + 1]) => Covered(p)

\* 'x', ' ', 'x' cut into chunks of one character: the blank one is dropped
C19_Witness ==
  /\ cPc = "done" /\ ValidSizes
  /\ Len(cChunks) = 2
  /\ cSpans = <<(<<0, 1>>), (<<2, 3>>)>>
  /\ ~Covered(1)

\* C20: a call of chunkText with overlap >= maxSize on a text longer than maxSize has
\* ended, with an error or with a result, before its loop has run more iterations
\* than the text has characters.
C20_FailsFast ==
  (cPc = "loop" /\ cOverlap >= cMaxSize /\ Len(cText) > cMaxSize) =>
    Len(cChunks) <= Len(cText)

\* C21 as stated: for a text shorter than maxSize chunkText returns exactly one chunk,
\* the whole text.
C21_ShortTextOneChunk ==
  (cPc = "done" /\ Len(cText) < cMaxSize) => cChunks = <<cText>>

\* C21 amended: a call on a text shorter than maxSize returns at its first iteration;
\* it returns exactly one chunk, the whole text untrimmed, when the text holds a
\* character other than white space, and no chunk when the text is empty or holds
\* white space only.
C21_ShortNonBlankTextOneChunk ==
  /\ (cPc = "loop" /\ Len(cText) < cMaxSize) => cChunks = <<>>
  /\ (cPc = "done" /\ Len(cText) < cMaxSize) =>
       cChunks = IF \E k \in 1..Len(cText) : ~IsSpace(cText[k]) THEN <<cText>> ELSE <<>>

\* a text of two characters or more with a blank at its end, returned whole
C21_Witness ==
  /\ cPc = "done" /\ Len(cText) < cMaxSize
  /\ Len(cText) >= 2 /\ IsSpace(cText[Len(cText)])
  /\ cChunks = <<cText>>

\* C22: in every iteration that does not reach the end of the text, for valid sizes and
\* a window starting at 0 or later: when the last '.' or line break inside the window
\* lies more than 70% of maxSize past the window's start, the chunk ends right after
\* that character and the next window starts overlap characters before that cut; when
\* there is none, or it lies less than 70% of maxSize past the start, the chunk ends at
\* start + maxSize and the next window starts overlap characters before that boundary.
\* (A break at exactly 70% is left open here.)
C22_CutRuleInEveryWindow ==
  [][(/\ cPc = "loop" /\ cPc' = "loop"
      /\ ValidSizes /\ cStart >= 0
      /\ Len(cChunks') = Len(cChunks) + 1) =>
       LET end == cStart + cMaxSize
           breaks == {p \in cStart..(end - 1) : cText[p + 1] \in {46, 10}}
           last == CHOOSE p \in breaks : \A q \in breaks : q <= p
           chunk == cChunks'[Len(cChunks')]
       IN  /\ (breaks # {} /\ 10 * (last - cStart) > 7 * cMaxSize) =>
                /\ chunk = SubSeq(cText, cStart + 1, last + 1)
                /\ cStart' = last + 1 - cOverlap
           /\ (breaks = {} \/ 10 * (last - cStart) < 7 * cMaxSize) =>
                /\ chunk = SubSeq(cText, cStart + 1, end)
                /\ cStart' = end - cOverlap]_vars

\* C23: every chunk chunkText returns is non-empty, is at most maxSize long, and is
\* the text between two of its positions.
C23_ChunksAreBoundedSubstrings ==
  (cPc = "done") =>
    \A k \in 1..Len(cChunks) :
      /\ cChunks[k] # <<>>
      /\ Len(cChunks[k]) <= cMaxSize
      /\ \E a \in 0..(Len(cText) - Len(cChunks[k])) :
           cChunks[k] = SubSeq(cText, a + 1, a + Len(cChunks[k]))

\* two chunks or more returned, one of them cut after a '.' before the hard boundary
C23_Witness ==
  /\ cPc = "done" /\ Len(cChunks) >= 2
  /\ \E k \in 1..Len(cChunks) :
       Len(cChunks[k]) < cMaxSize /\ cChunks[k][Len(cChunks[k])] = 46
         /\ cSpans[k][2] < Len(cText)

----------------------------------------------------------------------------
(* Claims about the outline *)

\* the response of the service call that generateWithRetry returned
ReturnedResponse == attempts[Len(attempts)].text

\* the lines of a response that are valid headings, by their number in the response
ValidLineNumbers(response) ==
  LET raw == splitOnFrom(response, 10, 1)
  IN  {k \in 1..Len(raw) :
         /\ trim(raw[k]) # <<>>
         /\ ~includes(raw[k], MarkYe) /\ ~includes(raw[k], MarkExample)
         /\ \E c \in 1..Len(raw[k]) : IsHangul(raw[k][c])}

\* C24: generateKoreanReportOutline throws only when every service call of its
\* generateWithRetry failed; when it returns, the outline has 2 to 4 headings: with
\* 2 valid response lines or more, the first up to 4 of them in response order
\* (trimmed, leading numbering or bullet removed), with fewer the three generic ones.
C24_OutlineHasTwoToFourHeadings ==
  /\ pOut.kind = "throw" => (Len(attempts) = maxRetries + 1 /\ AllFailed(attempts))
  /\ pOut.kind = "return" =>
       LET raw == splitOnFrom(ReturnedResponse, 10, 1)
           valid == ValidLineNumbers(ReturnedResponse)
           nth(j) == CHOOSE k \in valid : Cardinality({m \in valid : m <= k}) = j
           secs == pOut.outline.sections
       IN  /\ Len(secs) >= 2 /\ Len(secs) <= 4
           /\ Cardinality(valid) >= 2 =>
                /\ Len(secs) = Min2(4, Cardinality(valid))
                /\ \A j \in 1..Len(secs) :
                     secs[j] = stripBullet(stripNumbering(trim(raw[nth(j)])))
           /\ Cardinality(valid) < 2 => secs = FallbackSections

\* a response of three lines, the middle one with the example marker: two headings
C24_Witness ==
  /\ pOut.kind = "return"
  /\ Len(splitOnFrom(ReturnedResponse, 10, 1)) = 3
  /\ ValidLineNumbers(ReturnedResponse) = {1, 3}
  /\ Len(pOut.outline.sections) = 2
  /\ pOut.outline.sections[1] # trim(splitOnFrom(ReturnedResponse, 10, 1)[1])

\* C25: the title generateKoreanReportOutline returns is the subject of the first of
\* the ranked facts, which has the highest relevance score, followed by the report
\* suffix, or the placeholder title when there is no fact; it is the placeholder
\* title only then; the response the service gave plays no part in it.
C25_TitleFromTopFact ==
  pOut.kind = "return" =>
    /\ pOut.outline.title = IF pFacts = <<>> THEN TitlePlaceholder
                            ELSE pFacts[1].subject \o TitleSuffix
    /\ pOut.outline.title = TitlePlaceholder <=> pFacts = <<>>
    /\ \A k \in 1..Len(pFacts) : pFacts[k].relevanceScore <= pFacts[1].relevanceScore

\* two ranked facts, and a response that gives the generic headings
C25_Witness ==
  /\ pOut.kind = "return"
  /\ Len(pFacts) = 2
  /\ pFacts[1].relevanceScore > pFacts[2].relevanceScore
  /\ pOut.outline.sections = FallbackSections
  /\ Len(attempts) = 2

----------------------------------------------------------------------------
(* Claims about findRelevantFacts *)

\* how often the fact f (without its score) occurs in the list fs
Occurrences(f, fs) == Cardinality({k \in 1..Len(fs) : Unscored(fs[k]) = f})

\* C26: findRelevantFacts returns at most 4 facts, each a fact of allFacts (no fact
\* more often than allFacts holds it) carrying its score for the section, in order of
\* non-increasing score, and no fact left out scores higher than a returned one.
C26_TopFourForSection ==
  uCall.fn = "findRelevantFacts" =>
    LET given == uCall.args[2]
        out == uRet.facts
        keywords == extractKeywords(toLowerCase(uCall.args[1]))
    IN  /\ Len(out) = Min2(4, Len(given))
        /\ \A i \in 1..Len(out) :
             /\ Occurrences(Unscored(out[i]), out) <= Occurrences(Unscored(out[i]), given)
             /\ out[i].relevanceScore = sectionScore(Unscored(out[i]), keywords)
        /\ \A i \in 1..(Len(out) - 1) : out[i].relevanceScore >= out[i + 1].relevanceScore
        /\ \A k \in 1..Len(given) :
             Occurrences(given[k], out) < Occurrences(given[k], given) =>
               \A i \in 1..Len(out) :
                 sectionScore(given[k], keywords) <= out[i].relevanceScore

\* six facts, four returned in another order than they came in, with a fact left
\* out that scores as much as the last one returned
C26_Witness ==
  /\ uCall.fn = "findRelevantFacts"
  /\ Len(uCall.args[2]) = 6 /\ Len(uRet.facts) = 4
  /\ Unscored(uRet.facts[1]) # uCall.args[2][1]
  /\ uRet.facts[1].relevanceScore > uRet.facts[4].relevanceScore
  /\ \E k \in 1..6 :
       /\ Occurrences(uCall.args[2][k], uRet.facts) = 0
       /\ sectionScore(uCall.args[2][k],
                       extractKeywords(toLowerCase(uCall.args[1])))
            = uRet.facts[4].relevanceScore

----------------------------------------------------------------------------
(* Claims about the host *)

\* C27: once cancellation has been requested, the run enters no further stage: it
\* starts no extraction, planning or writing stage and does not complete (it may
\* still end with the error status or a cancelled status).
C27_NoStageAfterCancellation ==
  [][(cancelRequested /\ pc' # pc) =>
       pc' \notin {"extracting", "planning", "writing", "complete"}]_vars

\* the segments of the document of the finished run: the title line, for every section
\* its heading line and its content, and the footer
ExpectedBlocks ==
  [k \in 1..(2 * Len(sections) + 2) |->
     IF k = 1 THEN <<35, 32>> \o outline.title
     ELSE IF k = 2 * Len(sections) + 2
          THEN SubSeq(result.doc, FooterStart(result.doc), Len(result.doc))
     ELSE IF k % 2 = 0 THEN <<35, 35, 32>> \o sections[k \div 2].title
     ELSE sections[k \div 2].content]

\* C28: editor.addBlock is called only after the run is complete, never on a failed
\* run; the blocks added are, in order, the title line, each section's heading and
\* then its content in outline order, and the footer, one call per segment; all of
\* them are in when handleMultiTurnGeneration reports success.
C28_InsertedOnlyAfterComplete ==
  /\ [](/\ editorBlocks # <<>> => pc = "complete"
        /\ hostPc = "failed" => (pc = "error" /\ editorBlocks = <<>>)
        /\ pc = "complete" =>
             /\ Len(editorBlocks) <= Len(ExpectedBlocks)
             /\ editorBlocks = SubSeq(ExpectedBlocks, 1, Len(editorBlocks))
        /\ hostPc = "succeeded" => (pc = "complete" /\ editorBlocks = ExpectedBlocks))
  /\ [][editorBlocks' # editorBlocks =>
          (Len(editorBlocks') = Len(editorBlocks) + 1
             /\ SubSeq(editorBlocks', 1, Len(editorBlocks)) = editorBlocks)]_vars

\* a report of four sections is inserted as ten blocks
C28_Witness ==
  /\ hostPc = "succeeded"
  /\ Len(sections) = 4 /\ Len(editorBlocks) = 10
  /\ editorBlocks[2] = <<35, 35, 32>> \o outline.sections[1]

----------------------------------------------------------------------------
(* Claims about areFactsSimilar *)

\* the edit distance: the fewest insertions, deletions and replacements of one
\* character that turn a into b
RECURSIVE EditDistance(_, _)
EditDistance(a, b) ==
  IF a = <<>> THEN Len(b)
  ELSE IF b = <<>> THEN Len(a)
  ELSE IF Head(a) = Head(b) THEN EditDistance(Tail(a), Tail(b))
  ELSE 1 + Min2(EditDistance(Tail(a), Tail(b)),
                Min2(EditDistance(a, Tail(b)), EditDistance(Tail(a), b)))

\* C30: areFactsSimilar is true exactly when (L - d) / L > 0.7 for L the length of the
\* longer lower-cased subject and d the edit distance of the lower-cased subjects, and
\* when both subjects are empty; action and details play no part.
C30_DuplicateAboveSeventyPercent ==
  uCall.fn = "areFactsSimilar" =>
    LET s1 == toLowerCase(uCall.args[1].subject)
        s2 == toLowerCase(uCall.args[2].subject)
        L == Max2(Len(s1), Len(s2))
        d == EditDistance(s1, s2)
    IN  uRet.value = (L = 0 \/ 10 * (L - d) > 7 * L)

\* L = 10 and d = 3, facts with different actions and details: not a duplicate
C30_Witness ==
  /\ uCall.fn = "areFactsSimilar"
  /\ Len(uCall.args[1].subject) = 10 /\ Len(uCall.args[2].subject) = 10
  /\ EditDistance(uCall.args[1].subject, uCall.args[2].subject) = 3
  /\ uCall.args[1].action # uCall.args[2].action
  /\ uCall.args[1].details # uCall.args[2].details
  /\ uRet.value = FALSE

----------------------------------------------------------------------------
(* Claims about malformed fact blocks *)

\* /label\s*(.+)/i matches somewhere in the block: the label, then white space only,
\* then a character that is no line terminator
FieldMatched(block, label) ==
  \E k \in 1..Len(block) : \E j \in (k + Len(label))..Len(block) :
    /\ matchesAtCI(block, k, label)
    /\ \A m \in (k + Len(label))..(j - 1) : IsSpace(block[m])
    /\ ~IsLineTerminator(block[j])

\* the blocks of the response in which Subject, Action and Details are all matched
WellFormedBlocks(response) ==
  LET blocks == Tail(splitFactsFrom(response, 1))
  IN  {k \in 1..Len(blocks) : /\ FieldMatched(blocks[k], LblSubject)
                              /\ FieldMatched(blocks[k], LblAction)
                              /\ FieldMatched(blocks[k], LblDetails)}

\* C31: when the service answers the extraction call of a chunk, the chunk is recorded
\* as not failed with one fact for every block in which all three fields are matched
\* and none for the other blocks; no further call is issued for that chunk (the next
\* call, if any, is for the next chunk or the outline) and the only error the run can
\* end with at this step is the no-facts error of a run without any fact.
C31_MalformedBlocksDropped ==
  [][(gpc = "awaiting" /\ caller = "extract" /\ reply.kind = "ok") =>
       /\ chunkLog' = Append(chunkLog, [failed |-> FALSE,
                                        facts |-> chunkLog'[Len(chunkLog')].facts])
       /\ Len(chunkLog'[Len(chunkLog')].facts) = Cardinality(WellFormedBlocks(reply.text))
       /\ allFacts' = allFacts \o chunkLog'[Len(chunkLog')].facts
       /\ chunkIdx' = chunkIdx + 1
       /\ IF chunkIdx' < Len(chunks)
          THEN pc' = "extracting" /\ caller' = "extract" /\ attempts' = <<Pending>>
          ELSE caller' # "extract" \/ gpc' = "none"
       /\ result'.kind = "throw" => (result'.error = NoFactsError /\ allFacts' = <<>>)]_vars

\* two chunks answered at the first attempt: one response with a block without
\* Details gave one fact, the other without any block gave none; the run goes on
C31_Witness ==
  /\ pc = "planning"
  /\ Len(chunkLog) = 2 /\ failures = 0
  /\ ~chunkLog[1].failed /\ Len(chunkLog[1].facts) = 1
  /\ ~chunkLog[2].failed /\ chunkLog[2].facts = <<>>

----------------------------------------------------------------------------
(* Claims about the chat host *)

\* C32: a handled message starts exactly one generation path and never a second one;
\* for a composer command it is the multi-stage pipeline exactly when shouldUseMultiTurn
\* holds of the extracted instruction and the reference context, the single-pass path
\* otherwise; generateKoreanReport runs on no other path, and after a failed run the
\* message ends without the single-pass path having been started.
C32_OnePathPerCommand ==
  /\ Len(paths) = (IF chatPc = "idle" THEN 0 ELSE 1)
  /\ gate # "unset" =>
       paths = <<IF shouldUseMultiTurn(instruction, referenceText) THEN "multi"
                 ELSE "single">>
  /\ (chatPc # "idle" /\ gate = "unset") => paths = <<"chat">>
  /\ (pc # "idle" \/ hostPc # "awaiting" \/ editorBlocks # <<>>) => paths = <<"multi">>
  /\ hostPc = "failed" => (pc = "error" /\ paths = <<"multi">>)

\* the message of a failed multi-stage run has been handled to its end
C32_Witness ==
  /\ chatPc = "done" /\ hostPc = "failed" /\ pc = "error"
  /\ paths = <<"multi">> /\ gate = "true"
  /\ result.kind = "throw" /\ result.error \in ServiceErrors

\* C39: isProcessing is set exactly while a message is being handled; a call of
\* sendMessage made meanwhile changes nothing (no second path or run, no service call),
\* so at most one path is ever started and at most one service call is in flight; when
\* the handling has ended, by success or by failure, isProcessing is false again.
C39_OneMessageAtATime ==
  /\ [](/\ isProcessing <=> chatPc \in {"multi", "single", "chat"}
        /\ Len(paths) <= 1
        /\ inflight <= 1
        /\ (pc \in {"extracting", "planning", "writing"} \/ hostPc = "inserting")
             => isProcessing
        /\ chatPc = "done" => ~isProcessing)
  /\ [][dropped' # dropped =>
          /\ isProcessing /\ dropped' = dropped + 1
          /\ UNCHANGED <<isProcessing, chatPc, paths, inputVars, pipeVars,
                         editorBlocks, insertSections, hostPc>>]_vars

\* a message was dropped while another one was being processed, and the handled
\* message has ended with the report of its multi-stage run inserted
C39_Witness ==
  /\ chatPc = "done" /\ ~isProcessing
  /\ dropped = 1
  /\ hostPc = "succeeded" /\ Len(editorBlocks) > 2

----------------------------------------------------------------------------
(* Claims about the termination of chunkText *)

\* C33: in a call of chunkText with 0 <= overlap < maxSize, every iteration that does
\* not end the loop moves the window start strictly forward.
C33_StartStrictlyIncreases ==
  [][(ValidSizes /\ cPc = "loop" /\ cPc' = "loop") => cStart' > cStart]_vars

\* C34: in a call of chunkText with the pipeline's sizes (500, 100), every iteration
\* that does not end the loop moves the window start strictly forward; from the second
\* window on the chunk pushed is the whole window of 500 characters and the start
\* advances by exactly 400; so after k iterations the start is at least
\* 252 + 400 * (k - 1) and the loop ends within Len(text) \div 400 + 2 iterations.
C34_PipelineChunkingAdvances ==
  /\ []((cMaxSize = ChunkMaxSize /\ cOverlap = ChunkOverlap /\ cPc = "loop"
           /\ cChunks # <<>>)
           => (/\ cStart >= 252 + 400 * (Len(cChunks) - 1)
               /\ Len(cChunks) <= Len(cText) \div 400 + 1))
  /\ [][(cMaxSize = ChunkMaxSize /\ cOverlap = ChunkOverlap
           /\ cPc = "loop" /\ cPc' = "loop") =>
          /\ cStart' > cStart
          /\ cStart > 0 =>
               /\ cStart' = cStart + 400
               /\ cChunks' = Append(cChunks, SubSeq(cText, cStart + 1, cStart + 500))]_vars

\* a text of 1301 characters cut after a '.' in its first window, whose second window
\* holds a '.' more than 70% into it and is cut at the hard boundary all the same
C34_Witness ==
  /\ cPc = "done" /\ cMaxSize = ChunkMaxSize /\ cOverlap = ChunkOverlap
  /\ Len(cText) = 1301 /\ Len(cSpans) = 4
  /\ cSpans[1] = <<0, 451>>
  /\ cSpans[2] = <<351, 851>> /\ cText[851] = 46
  /\ cSpans[3] = <<751, 1251>>
  /\ cSpans[4] = <<1151, 1301>>

----------------------------------------------------------------------------
(* Claims about the sections of a pipeline run *)

\* the document ends with the footer, whose two numerals read n and f
FooterReads(doc, n, f) ==
  \E a \in 1..2 : \E b \in 1..2 :
    LET at == Len(doc) - (Len(FooterHead) + a + Len(FooterMid) + b + Len(FooterTail))
    IN  /\ at >= 0
        /\ SubSeq(doc, at + 1, at + Len(FooterHead)) = FooterHead
        /\ ReadsAs(SubSeq(doc, at + Len(FooterHead) + 1, at + Len(FooterHead) + a), n)
        /\ SubSeq(doc, at + Len(FooterHead) + a + 1,
                   at + Len(FooterHead) + a + Len(FooterMid)) = FooterMid
        /\ ReadsAs(SubSeq(doc, at + Len(FooterHead) + a + Len(FooterMid) + 1,
                          Len(doc) - Len(FooterTail)), f)
        /\ SubSeq(doc, Len(doc) - Len(FooterTail) + 1, Len(doc)) = FooterTail

\* C35: in a run that has reached its planning stage the ranked fact list holds
\* K >= 1 facts; every section written holds exactly min(4, K) facts and its content
\* is not the insufficient-information placeholder; a section is added only by the
\* step that takes a successful answer of the service to a section call; and the
\* footer of the finished document reads N sections and N * min(4, K) facts.
C35_SectionsGetFacts ==
  /\ [](/\ pc \in {"planning", "writing", "complete"} => Len(keyFacts) >= 1
        /\ \A k \in 1..Len(sections) :
             /\ Len(sections[k].facts) = Min2(4, Len(keyFacts))
             /\ sections[k].content # sections[k].title \o PlaceholderSuffix
        /\ pc = "complete" =>
             FooterReads(result.doc, Len(sections),
                         Len(sections) * Min2(4, Len(keyFacts))))
  /\ [][sections' # sections =>
          /\ gpc = "awaiting" /\ caller = "section" /\ reply.kind = "ok"
          /\ Len(sections') = Len(sections) + 1
          /\ SubSeq(sections', 1, Len(sections)) = sections]_vars

\* a finished run with more than four ranked facts and four sections of four facts
C35_Witness ==
  /\ pc = "complete"
  /\ Len(keyFacts) > 4
  /\ Len(sections) = 4
  /\ \A k \in 1..4 : Len(sections[k].facts) = 4
  /\ FooterReads(result.doc, 4, 16)

----------------------------------------------------------------------------
(* Claims about the errors that reach the caller *)

\* C36: a run never ends with a service error while it is extracting: a step taken
\* with generateWithRetry called for a chunk can end the run only with the no-facts
\* error; when extraction is over and every chunk has failed, the run has ended with
\* the no-facts error, thrown and carried by the error event; and a run that has ended
\* with a service error has ranked facts and got the error from the invocation of the
\* outline or of a section.
C36_ExtractionErrorsMasked ==
  /\ []((ExtractionOver /\ chunks # <<>> /\ \A k \in 1..Len(chunkLog) : chunkLog[k].failed)
          => /\ pc = "error"
             /\ result = [kind |-> "throw", error |-> NoFactsError]
             /\ events[Len(events)] = ErrorEvent(NoFactsError))
  /\ []((pc = "error" /\ result.error \in ServiceErrors)
          => /\ keyFacts # <<>>
             /\ genOut.kind = "throw" /\ genOut.who \in {"outline", "section"}
             /\ genOut.error = result.error
             /\ events[Len(events)] = ErrorEvent(result.error))
  /\ [][(caller = "extract" /\ result' # result) =>
          /\ result' = [kind |-> "throw", error |-> NoFactsError]
          /\ events' = Append(events, ErrorEvent(NoFactsError))]_vars

\* the service failed three times for the only chunk: the invocation threw E2, the
\* run ended with the no-facts error
C36_Witness ==
  /\ pc = "error"
  /\ Len(chunks) = 1 /\ chunkLog = <<[failed |-> TRUE, facts |-> <<>>]>>
  /\ genOut = [kind |-> "throw", who |-> "extract", error |-> "E2"]
  /\ result = [kind |-> "throw", error |-> NoFactsError]
  /\ events[Len(events)] = ErrorEvent(NoFactsError)

\* the invocations of generateWithRetry a run has started: one for every chunk
\* reached, one for the outline, one for every section reached
InvocationsStarted ==
  CASE pc = "idle" -> 0
    [] pc = "extracting" -> chunkIdx + 1
    [] pc = "planning" -> Len(chunks) + 1
    [] pc = "writing" -> Len(chunks) + 1 + secIdx + 1
    [] pc = "complete" -> Len(chunks) + 1 + Len(outline.sections)
    [] pc = "error" ->
         IF result.error = NoFactsError THEN Len(chunks)
         ELSE IF genOut.who = "outline" THEN Len(chunks) + 1
         ELSE Len(chunks) + 1 + secIdx + 1

\* the position of a run as a number: three for every service call issued, and the
\* steps taken since the last one was issued (it was settled, its delay is running,
\* the run has ended)
RunProgress ==
  3 * calls + (IF pc \in {"complete", "error"} THEN 3
               ELSE IF gpc = "delay" THEN 2
               ELSE IF gpc = "awaiting" /\ reply # NoReply THEN 1
               ELSE 0)

\* something is left to happen: the call of generateKoreanReport, the settling of the
\* service call in flight, the continuation of a settled call, the timer of a delay
StepPending ==
  \/ pc = "idle"
  \/ gpc = "awaiting" /\ reply = NoReply /\ inflight = 1
  \/ gpc = "awaiting" /\ reply.kind \in {"ok", "fail"}
  \/ gpc = "delay"

\* C37: a run ends after finitely many steps when every service call is settled:
\* every step advances the run, a run that has not reached "complete" or "error"
\* waits for a service call, for a timer or for a continuation, and the service calls
\* are bounded: at most three for every invocation of generateWithRetry started, at
\* most one invocation for every chunk, one for the outline and one for every
\* section, at most four sections; so a run that has ended over C chunks with N
\* sections has issued at most 3 * (C + 1 + N) service calls.
C37_RunEndsWithinCallBudget ==
  /\ [][RunProgress' > RunProgress]_vars
  /\ [](pc \notin {"complete", "error"} => StepPending)
  /\ [](calls <= 3 * InvocationsStarted)
  /\ [](InvocationsStarted <= Len(chunks) + 1 + Len(outline.sections))
  /\ [](Len(outline.sections) <= 4)
  /\ [](pc \in {"complete", "error"}
          => calls <= 3 * (Len(chunks) + 1 + Len(outline.sections)))

\* a completed run over four sections in which the service failed three times: three
\* service calls more than invocations
C37_Witness ==
  /\ pc = "complete" /\ Len(chunks) >= 1 /\ Len(outline.sections) = 4
  /\ failures = 3
  /\ calls = Len(chunks) + 1 + Len(outline.sections) + 3

----------------------------------------------------------------------------
(* Claims about the facts deduplicateAndRankFacts returns *)

\* the lower-cased subjects of f and g are both empty, or their edit distance d and
\* the length L of the longer one give (L - d) / L > 0.7
SimilarSubjects(f, g) ==
  LET s1 == toLowerCase(f.subject)
      s2 == toLowerCase(g.subject)
      L == Max2(Len(s1), Len(s2))
  IN  L = 0 \/ 10 * (L - EditDistance(s1, s2)) > 7 * L

\* C38: no two of the facts deduplicateAndRankFacts returns are similar, whatever the
\* list it is called with.
C38_NoSimilarFactsReturned ==
  dOut.kind = "return" =>
    \A i, j \in 1..Len(dOut.facts) :
      i # j => ~SimilarSubjects(dOut.facts[i], dOut.facts[j])

\* three facts, the second similar to the first and the third similar to the second
\* only: the first and the third are returned
C38_Witness ==
  /\ dOut.kind = "return"
  /\ Len(dFacts) = 3
  /\ SimilarSubjects(dFacts[1], dFacts[2]) /\ SimilarSubjects(dFacts[2], dFacts[3])
  /\ ~SimilarSubjects(dFacts[1], dFacts[3])
  /\ {dOut.facts[k].subject : k \in 1..Len(dOut.facts)}
       = {dFacts[1].subject, dFacts[3].subject}
  /\ Len(dOut.facts) = 2

====
